---- MODULE Spec2Model ----
(***************************************************************************)
(* Template evaluator, ExecutionResult, SimpleView and DiffView of the     *)
(* living-reports backend, as a state machine.                             *)
(*                                                                         *)
(* Strings are sequences of tokens.  A token is a piece of literal text,   *)
(* a newline, a reference ($name, {{$name}}, {{name}}), an assignment      *)
(* directive {{name:=content}}, or, in rendered text, the markup that      *)
(* wraps a substituted value.  The regular expressions of template.py      *)
(* work on characters; the tokens are their matches.                       *)
(***************************************************************************)
EXTENDS Integers, Sequences, FiniteSets, TLC

VARIABLES
    heap,      \* ExecutionResult objects by identity
    view,      \* the live view object (SimpleView or DiffView)
    old,       \* the result of the side taken from the DiffView last left, still held by its caller
    last       \* the last operation and the completion calls it made

vars == <<heap, view, old, last>>

(***************************************************************************)
(* Bounds of the model.                                                    *)
(***************************************************************************)
MaxLines == 2          \* lines of a template text given to a view
MaxDiffLines == 3      \* lines of a text given to the line diff alone

(***************************************************************************)
(* Tokens.                                                                 *)
(***************************************************************************)
Tok(k, n, i, a) == [k |-> k, n |-> n, i |-> i, a |-> a]

Txt(s) == Tok("txt", s, 0, <<>>)

NL == Txt("\n")

RefDollar(name) == Tok("$", name, 0, <<>>)

RefCurlyDollar(name) == Tok("{{$}}", name, 0, <<>>)

RefCurly(name) == Tok("{{}}", name, 0, <<>>)

\* {{name:=content}}: content is a sequence of text and $name tokens
Asg(name, content) == Tok("asg", name, 0, content)

\* <span class="var-ref" data-var=name data-instance=inst data-value=value>value</span>
Span(name, inst, value) == Tok("span", name, inst, value)

\* $$name:{value}
Marker(name, value) == Tok("marker", name, 0, value)

\* the decimal text of a whole number, as in "1"
Num(n) == Tok("num", "", n, <<>>)

\* str() of the float num/den, as in "6.0" and "1.5"; num/den is in lowest terms
Float(num, den) == Tok("float", "", num, <<Num(den)>>)

\* the separators of a number list: comma, semicolon, blank (and newline)
Comma == Txt(",")

Semicolon == Txt(";")

Blank == Txt(" ")

\* the reference names found in self.data_sources_items
data_sources_items == {"d"}

\* what _render_data_source returns for a name of data_sources_items
DataSource(name) == Tok("ds", name, 0, <<>>)

\* the text appended to a prompt before it is sent
Suffix == <<NL, NL, Txt(" Directly return results.")>>

ErrorMsg == <<Txt("Error processing template: failure")>>

RECURSIVE ContainsNL(_)
\* whether the rendered characters of s include a newline ('.' does not match it)
ContainsNL(s) ==
    \E j \in 1..Len(s) : s[j] = NL \/ ContainsNL(s[j].a)

(***************************************************************************)
(* str.split("\n") and "\n".join                                           *)
(***************************************************************************)
RECURSIVE Split(_)
Split(s) ==
    IF \A j \in 1..Len(s) : s[j] # NL
    THEN <<s>>
    ELSE LET i == CHOOSE j \in 1..Len(s) :
                      s[j] = NL /\ \A m \in 1..(j - 1) : s[m] # NL
         IN  <<SubSeq(s, 1, i - 1)>> \o Split(SubSeq(s, i + 1, Len(s)))

RECURSIVE Join(_)
Join(lines) ==
    IF lines = <<>> THEN <<>>
    ELSE IF Len(lines) = 1 THEN lines[1]
    ELSE lines[1] \o <<NL>> \o Join(Tail(lines))

(***************************************************************************)
(* The variable mapping: name -> {value, prompt}.                          *)
(***************************************************************************)
Vars == {"v", "w", "t"}

Absent == [set |-> FALSE, value |-> <<>>, hasPrompt |-> FALSE, prompt |-> <<>>]

\* {"value": value, "prompt": prompt}
Entry(value, prompt) ==
    [set |-> TRUE, value |-> value, hasPrompt |-> TRUE, prompt |-> prompt]

\* the text is stored as its own prompt
LitEntry_WithPrompt(value) == Entry(value, value)

\* {"value": value, "prompt": None}
LitEntry(value) ==
    [set |-> TRUE, value |-> value, hasPrompt |-> FALSE, prompt |-> <<>>]

EmptyVars == [n \in Vars |-> Absent]

\* name in variables
Has(vs, name) == name \in DOMAIN vs /\ vs[name].set

NoInst == [n \in Vars |-> 0]

\* Let(value, LAMBDA x : body) is body with x naming value
Let(value, Body(_)) == Body(value)

(***************************************************************************)
(* Reference substitution.                                                 *)
(***************************************************************************)
\* what one matched reference to a variable is replaced by; the resolved
\* value is the value: no value of the model is "$" and a data-source name
Replacement(t, value, inst, mode) ==
    LET w == IF mode = "output_and_variables"
             THEN Marker(t.n, value)
             ELSE Span(t.n, inst, value)
    IN  IF t.k = "{{$}}"
        THEN <<Txt("{{"), w, Txt("}}")>>   \* \$(\w+) matched inside the braces
        ELSE <<w>>

\* what one matched reference to a data source is replaced by
Rendered(t) ==
    IF t.k = "{{$}}"
    THEN <<Txt("{{"), DataSource(t.n), Txt("}}")>>
    ELSE <<DataSource(t.n)>>

\* the reference is removed
Kept_Dropped(t) == <<>>

\* a reference that is neither a variable nor a data source: return
\* f"${var_name}", keep original if not found
Kept(t) == <<t>>

RECURSIVE SubstPass(_, _, _, _, _)
\* one re.sub over the text for the reference forms in `forms`
SubstPass(toks, forms, vs, st, mode) ==
    IF toks = <<>> THEN st
    ELSE LET t == Head(toks)
             hit == t.k \in forms /\ Has(vs, t.n)
             cnt == IF hit /\ mode # "output_and_variables"
                    THEN st.inst[t.n] + 1 ELSE 0
             piece == IF hit
                      THEN Replacement(t, vs[t.n].value, cnt, mode)
                      ELSE IF t.k \in forms /\ t.n \in data_sources_items
                      THEN Rendered(t)
                      ELSE IF t.k \in forms
                      THEN Kept(t)
                      ELSE <<t>>
         IN  SubstPass(Tail(toks), forms, vs,
                       [out |-> st.out \o piece,
                        inst |-> IF hit /\ mode # "output_and_variables"
                                 THEN [st.inst EXCEPT ![t.n] = cnt]
                                 ELSE st.inst],
                       mode)

\* substitute_all_variables / substitute_with_references: $name, then
\* {{$name}}, then {{name}}
substitute_all_variables(toks, vs, inst, mode) ==
    Let(SubstPass(toks, {"$", "{{$}}"}, vs, [out |-> <<>>, inst |-> inst], mode),
        LAMBDA p1 :
    Let(SubstPass(p1.out, {"{{$}}"}, vs, [out |-> <<>>, inst |-> p1.inst], mode),
        LAMBDA p2 :
    SubstPass(p2.out, {"{{}}"}, vs, [out |-> <<>>, inst |-> p2.inst], mode)))

(***************************************************************************)
(* The completion collaborator.  An outcome is a response or an exception. *)
(***************************************************************************)
Outcomes == {"r1", "r2", "raise"}

\* response.choices[0].message.content; the second response has two lines
ResponseValue(o) ==
    IF o = "r1" THEN <<Txt("r1")>> ELSE <<Txt("r2"), NL, Txt("r2")>>

Call(name, prompt, outcome) == [n |-> name, p |-> prompt, o |-> outcome]

(***************************************************************************)
(* SUM and AVG.  A float is an exact fraction num/den: the numbers of the  *)
(* model are small, so that float arithmetic on them is exact up to str(). *)
(***************************************************************************)
RECURSIVE substitute_variables_in_content(_, _)
\* Template._substitute_variables_in_content: $name and {{$name}} are
\* replaced by the bare value; \$(\w+) also matches inside {{$name}} and
\* inside a marker $$name:{value}
substitute_variables_in_content(content, vs) ==
    IF content = <<>> THEN <<>>
    ELSE LET t == Head(content)
             found == IF Has(vs, t.n) THEN vs[t.n].value
                      ELSE IF t.n \in data_sources_items THEN <<DataSource(t.n)>>
                      ELSE <<RefDollar(t.n)>>
             piece == IF t.k = "$" THEN found
                      ELSE IF t.k = "{{$}}"
                      THEN IF Has(vs, t.n) \/ t.n \in data_sources_items
                           THEN <<Txt("{{")>> \o found \o <<Txt("}}")>>
                           ELSE <<t>>
                      ELSE IF t.k = "marker"
                      THEN <<Txt("$")>> \o found \o <<Txt(":{")>>
                           \o substitute_variables_in_content(t.a, vs) \o <<Txt("}")>>
                      ELSE IF t.k = "span"
                      THEN <<Span(t.n, t.i, substitute_variables_in_content(t.a, vs))>>
                      ELSE <<t>>
         IN  piece \o substitute_variables_in_content(Tail(content), vs)

\* the characters [,;\s]
Separators == {Comma, Semicolon, Blank, NL}

RECURSIVE Flatten(_)
\* the text with the markup of substituted values written out: a span has
\* blanks between its attributes and holds the value twice
Flatten(s) ==
    IF s = <<>> THEN <<>>
    ELSE LET t == Head(s)
             piece == IF t.k = "span"
                      THEN <<Txt("<span"), Blank, Txt("class=var-ref"), Blank,
                             Txt("data-var="), Blank, Txt("data-instance="), Blank,
                             Txt("data-value=")>> \o Flatten(t.a) \o <<Txt(">")>>
                           \o Flatten(t.a) \o <<Txt("</span>")>>
                      ELSE IF t.k = "marker"
                      THEN <<Txt("$$"), Txt(":{")>> \o Flatten(t.a) \o <<Txt("}")>>
                      ELSE <<t>>
         IN  piece \o Flatten(Tail(s))

RECURSIVE Parts(_, _)
\* re.split(r'[,;\s]+', content.strip()) without the empty parts; part is
\* the part being read
Parts(s, part) ==
    IF s = <<>> THEN (IF part = <<>> THEN <<>> ELSE <<part>>)
    ELSE IF Head(s) \in Separators
    THEN (IF part = <<>> THEN <<>> ELSE <<part>>) \o Parts(Tail(s), <<>>)
    ELSE Parts(Tail(s), Append(part, Head(s)))

\* float(part) succeeds
IsNumber(part) == Len(part) = 1 /\ part[1].k \in {"num", "float"}

\* float(part)
Fraction(num, den) == [num |-> num, den |-> den]

ToFloat(part) ==
    IF part[1].k = "num" THEN Fraction(part[1].i, 1)
    ELSE Fraction(part[1].i, part[1].a[1].i)

RECURSIVE FloatsOf_KeepsAll(_)
\* a part that is no number counts as 0
FloatsOf_KeepsAll(parts) ==
    IF parts = <<>> THEN <<>>
    ELSE IF IsNumber(Head(parts))
    THEN <<ToFloat(Head(parts))>> \o FloatsOf_KeepsAll(Tail(parts))
    ELSE <<Fraction(0, 1)>> \o FloatsOf_KeepsAll(Tail(parts))

RECURSIVE FloatsOf(_)
FloatsOf(parts) ==
    IF parts = <<>> THEN <<>>
    ELSE IF IsNumber(Head(parts))
    THEN <<ToFloat(Head(parts))>> \o FloatsOf(Tail(parts))
    ELSE FloatsOf(Tail(parts))

\* Template._parse_numbers
parse_numbers(content) == FloatsOf(Parts(Flatten(content), <<>>))

RECURSIVE Gcd(_, _)
Gcd(a, b) == IF b = 0 THEN a ELSE Gcd(b, a % b)

Lowest(num, den) ==
    LET g == Gcd(num, den) IN Fraction(num \div g, den \div g)

RECURSIVE sum(_)
\* sum(numbers)
sum(numbers) ==
    IF numbers = <<>> THEN Fraction(0, 1)
    ELSE LET x == Head(numbers)
             y == sum(Tail(numbers))
         IN  Lowest(x.num * y.den + y.num * x.den, x.den * y.den)

\* sum(numbers) / len(numbers)
avg(numbers) ==
    LET total == sum(numbers)
    IN  Lowest(total.num, total.den * Len(numbers))

\* str(result)
str(x) == <<Float(x.num, x.den)>>

\* Template._process_sum
process_sum(content, vs) ==
    Let(parse_numbers(substitute_variables_in_content(content, vs)), LAMBDA numbers :
        IF numbers = <<>> THEN <<Num(0)>> ELSE str(sum(numbers)))

\* Template._process_avg
process_avg(content, vs) ==
    Let(parse_numbers(substitute_variables_in_content(content, vs)), LAMBDA numbers :
        IF numbers = <<>> THEN <<Num(0)>> ELSE str(avg(numbers)))

(***************************************************************************)
(* Template._process_template and _process_template_with_references:      *)
(* one assignment directive.                                               *)
(***************************************************************************)
\* re.match(r"^LLM\((.*)\)$", content)
llm_match(content) ==
    /\ Len(content) >= 2
    /\ content[1] = Txt("LLM(")
    /\ content[Len(content)] = Txt(")")
    /\ ~ContainsNL(content)

\* the prompt the cached entry is compared with: llm_match.group(1)
PromptOf(content) == SubSeq(content, 2, Len(content) - 1)

\* variables[name]["prompt"] == prompt
SamePrompt(vs, name, prompt) ==
    Has(vs, name) /\ vs[name].hasPrompt /\ vs[name].prompt = prompt

\* the prompt that is sent to the collaborator and stored with the value
SentPrompt(prompt, mode) ==
    IF mode = "output_and_variables" THEN prompt ELSE prompt \o Suffix

\* the mapping after the collaborator raised
AfterRaise(vs, name, prompt, mode) ==
    IF mode = "output_and_variables"
    THEN [vs EXCEPT ![name] = Entry(ErrorMsg, prompt)]
    ELSE vs

\* the exception leaves the directive: there is no except clause
TryCall_NoExcept(vs, name, sent, mode, outcome) ==
    IF outcome = "raise"
    THEN [vars |-> vs, raised |-> TRUE]
    ELSE [vars |-> [vs EXCEPT ![name] = Entry(ResponseValue(outcome), sent)],
          raised |-> FALSE]

\* try: call, store / except Exception: the mapping afterwards, and whether
\* an exception leaves the directive
TryCall(vs, name, sent, mode, outcome) ==
    IF outcome = "raise"
    THEN [vars |-> AfterRaise(vs, name, sent, mode), raised |-> FALSE]
    ELSE [vars |-> [vs EXCEPT ![name] = Entry(ResponseValue(outcome), sent)],
          raised |-> FALSE]

\* re.match(r"^SUM\((.*)\)$", content)
sum_match(content) ==
    /\ Len(content) >= 2
    /\ content[1] = Txt("SUM(")
    /\ content[Len(content)] = Txt(")")
    /\ ~ContainsNL(content)

\* re.match(r"^AVG\((.*)\)$", content)
avg_match(content) ==
    /\ Len(content) >= 2
    /\ content[1] = Txt("AVG(")
    /\ content[Len(content)] = Txt(")")
    /\ ~ContainsNL(content)

\* the result is stored whatever the stored prompt is
Aggregate_NoCache(name, st, inst, numbers_content, result) ==
    [st EXCEPT !.vars = [st.vars EXCEPT ![name] = Entry(result, numbers_content)],
               !.inst = inst]

\* the SUM and AVG branches: the stored value is kept when the stored prompt
\* is numbers_content, else result is stored with numbers_content
Aggregate(name, st, inst, numbers_content, result) ==
    IF SamePrompt(st.vars, name, numbers_content)
    THEN [st EXCEPT !.inst = inst]
    ELSE [st EXCEPT !.vars = [st.vars EXCEPT ![name] = Entry(result, numbers_content)],
                    !.inst = inst]

\* a literal is stored only for a name the mapping does not hold
Literal_KeepsExisting(name, st, inst, content) ==
    IF Has(st.vars, name) THEN [st EXCEPT !.inst = inst]
    ELSE [st EXCEPT !.vars = [st.vars EXCEPT ![name] = LitEntry(content)], !.inst = inst]

\* the direct value assignment: variables[name] = {"value": content, "prompt": None}
Literal(name, st, inst, content) ==
    [st EXCEPT !.vars = [st.vars EXCEPT ![name] = LitEntry(content)], !.inst = inst]

\* st = [vars, inst, calls, raised]: the mapping, the instance counters, the
\* completion calls made so far and whether an exception is on its way out;
\* oracle[j] is the outcome of the j-th call
process_prompt_template(t, st, mode, oracle) ==
    Let(substitute_all_variables(t.a, st.vars, st.inst, mode), LAMBDA sub :
    Let(PromptOf(sub.out), LAMBDA prompt :
    Let(SentPrompt(prompt, mode), LAMBDA sent :
        LET content == sub.out
            outcome == oracle[Len(st.calls) + 1]
        IN  IF llm_match(content)
            THEN IF SamePrompt(st.vars, t.n, prompt)
                 THEN [st EXCEPT !.inst = sub.inst]
                 ELSE Let(TryCall(st.vars, t.n, sent, mode, outcome), LAMBDA r :
                          [vars |-> r.vars,
                           inst |-> sub.inst,
                           calls |-> Append(st.calls, Call(t.n, sent, outcome)),
                           raised |-> r.raised])
            ELSE IF sum_match(content)
            THEN Aggregate(t.n, st, sub.inst, prompt, process_sum(prompt, st.vars))
            ELSE IF avg_match(content)
            THEN Aggregate(t.n, st, sub.inst, prompt, process_avg(prompt, st.vars))
            ELSE Literal(t.n, st, sub.inst, content))))

RECURSIVE ProcessDirectives_Reversed(_, _, _, _)
\* the directives are evaluated from the last to the first
ProcessDirectives_Reversed(toks, st, mode, oracle) ==
    IF toks = <<>> THEN st
    ELSE IF Head(toks).k = "asg"
    THEN process_prompt_template(Head(toks),
                                 ProcessDirectives_Reversed(Tail(toks), st, mode, oracle),
                                 mode, oracle)
    ELSE ProcessDirectives_Reversed(Tail(toks), st, mode, oracle)

RECURSIVE ProcessDirectives(_, _, _, _)
\* for match in re.finditer(self.variable_pattern, template_to_process)
ProcessDirectives(toks, st, mode, oracle) ==
    IF toks = <<>> \/ st.raised THEN st
    ELSE IF Head(toks).k = "asg"
    THEN ProcessDirectives(Tail(toks),
                           process_prompt_template(Head(toks), st, mode, oracle),
                           mode, oracle)
    ELSE ProcessDirectives(Tail(toks), st, mode, oracle)

\* the directive spans stay in the text
Residual_Kept(text) == text

\* the text between and after the directive spans
Residual(text) == SelectSeq(text, LAMBDA t : t.k # "asg")

\* the evaluator state at the start of an execute
Start(vs) == [vars |-> vs, inst |-> NoInst, calls |-> <<>>, raised |-> FALSE]

\* Template.execute on a mapping: the mapping afterwards, the rendered
\* output, the completion calls made, and whether an exception left it
Execute(text, vs, mode, oracle) ==
    Let(ProcessDirectives(text, Start(vs), mode, oracle), LAMBDA st :
        [variables |-> st.vars,
         rendered_output |->
             substitute_all_variables(Residual(text), st.vars, st.inst, mode).out,
         calls |-> st.calls,
         raised |-> st.raised])

(***************************************************************************)
(* ExecutionResult objects.                                                *)
(***************************************************************************)
ErIds == 1..4

NoEr == [live |-> FALSE, rendered_output |-> <<>>, variables |-> EmptyVars,
         rendering_mode |-> ""]

\* ExecutionResult(rendered_output="", variables=vs, rendering_mode="output_only")
ExecutionResult(vs) ==
    [live |-> TRUE, rendered_output |-> <<>>, variables |-> vs,
     rendering_mode |-> "output_only"]

\* result.rendered_output = processed_text; result.rendering_mode = mode
Executed(ex, mode) ==
    [live |-> TRUE, rendered_output |-> ex.rendered_output,
     variables |-> ex.variables, rendering_mode |-> mode]

(***************************************************************************)
(* Inputs: the lines and texts an editor or a suggestion may supply.       *)
(***************************************************************************)
LLM(p) == <<Txt("LLM("), Txt(p), Txt(")")>>

Lines ==
    { <<>>,                                  \* an empty line
      <<Txt("a")>>,                          \* a
      <<RefDollar("v")>>,                    \* $v
      <<Asg("v", LLM("p"))>>,                \* {{v:=LLM(p)}}
      <<Asg("v", LLM("q"))>>,                \* {{v:=LLM(q)}}
      <<Asg("w", <<Txt("a")>>)>> }           \* {{w:=a}}

LineLists == UNION {[1..n -> Lines] : n \in 1..MaxLines}

Texts == {Join(ls) : ls \in LineLists}

\* an upper bound of the completion calls one execute of text makes
MaxCalls(text) ==
    Len(SelectSeq(text, LAMBDA t : t.k = "asg" /\ t.a # <<>> /\ t.a[1] = Txt("LLM(")))

Oracles(text, outcomes) == [1..MaxCalls(text) -> outcomes]

(***************************************************************************)
(* DiffView._compute_line_diffs                                            *)
(***************************************************************************)
\* the last line stands in for a missing one
LineAt_Clamped(lines, i) == IF i < Len(lines) THEN lines[i + 1] ELSE lines[Len(lines)]

\* lines[i] if i < len(lines) else ""   (i counts from 0)
LineAt(lines, i) == IF i < Len(lines) THEN lines[i + 1] ELSE <<>>

\* added and removed exchanged
ChangeType_Exchanged(current_line, suggested_line) ==
    IF current_line # <<>> /\ suggested_line # <<>> THEN "modified"
    ELSE IF current_line = <<>> THEN "removed"
    ELSE "added"

\* "modified" if current_line and suggested_line else "added" if not current_line else "removed"
ChangeType(current_line, suggested_line) ==
    IF current_line # <<>> /\ suggested_line # <<>> THEN "modified"
    ELSE IF current_line = <<>> THEN "added"
    ELSE "removed"

LineDiff(i, current_line, suggested_line) ==
    [lineIndex |-> i, originalLine |-> current_line, suggestedLine |-> suggested_line,
     changeType |-> ChangeType(current_line, suggested_line)]

Max(a, b) == IF a >= b THEN a ELSE b

RECURSIVE DiffsFrom(_, _, _, _)
\* for i in range(max_lines), from index i on
DiffsFrom(i, max_lines, current_lines, suggested_lines) ==
    IF i >= max_lines THEN <<>>
    ELSE LET current_line == LineAt(current_lines, i)
             suggested_line == LineAt(suggested_lines, i)
             rest == DiffsFrom(i + 1, max_lines, current_lines, suggested_lines)
         IN  IF current_line # suggested_line
             THEN <<LineDiff(i, current_line, suggested_line)>> \o rest
             ELSE rest

compute_line_diffs(current_text, suggested_text) ==
    LET current_lines == Split(current_text)
        suggested_lines == Split(suggested_text)
    IN  DiffsFrom(0, Max(Len(current_lines), Len(suggested_lines)),
                  current_lines, suggested_lines)

(***************************************************************************)
(* DiffView.parse_diff_content.  The editor content is a token sequence    *)
(* in which a line container <div class="suggestion-line"                  *)
(* data-line-index=i> is a token holding its content, and a removed or     *)
(* added span a token holding its text.                                    *)
(***************************************************************************)
Div(i, inner) == Tok("div", "", i, inner)

Removed(inner) == Tok("removed", "", 0, inner)

Added(inner) == Tok("added", "", 0, inner)

RECURSIVE HasTag(_, _)
\* whether a tag of one of the kinds occurs in the content
HasTag(s, kinds) ==
    \E j \in 1..Len(s) : s[j].k \in kinds \/ HasTag(s[j].a, kinds)

\* "<span" in editor_content and "class=" in editor_content
HasMarkup(editor_content) == HasTag(editor_content, {"removed", "added", "span"})

\* html.unescape of one token
UnescapeTok(t) ==
    IF t = Txt("&amp;") THEN Txt("&")
    ELSE IF t = Txt("&lt;") THEN Txt("<")
    ELSE t

Unescape(s) == [j \in 1..Len(s) |-> UnescapeTok(s[j])]

RECURSIVE StripTags(_)
\* re.sub(r'<[^>]*>', '', line_content): the tags go, what they enclose stays
StripTags(s) ==
    IF s = <<>> THEN <<>>
    ELSE IF Head(s).k \in {"div", "removed", "added", "span"}
    THEN StripTags(Head(s).a) \o StripTags(Tail(s))
    ELSE <<Head(s)>> \o StripTags(Tail(s))

RECURSIVE InsertDiv(_, _)
InsertDiv(d, sorted) ==
    IF sorted = <<>> THEN <<d>>
    ELSE IF d.i < Head(sorted).i THEN <<d>> \o sorted
    ELSE <<Head(sorted)>> \o InsertDiv(d, Tail(sorted))

RECURSIVE SortDivs(_)
\* line_matches.sort(key=lambda x: int(x[0])): stable
SortDivs(ds) ==
    IF ds = <<>> THEN <<>>
    ELSE InsertDiv(ds[Len(ds)], SortDivs(SubSeq(ds, 1, Len(ds) - 1)))

NoLine == [some |-> FALSE, line |-> <<>>]

SomeLine(l) == [some |-> TRUE, line |-> l]

\* re.search(r'<span class="..."[^>]*>(.*?)</span>', line_content): the text
\* of the first span of the kind, when it has no newline
SpanMatch(inner, kind) ==
    LET first == CHOOSE j \in 1..Len(inner) :
                     inner[j].k = kind /\ \A m \in 1..(j - 1) : inner[m].k # kind
    IN  IF ContainsNL(inner[first].a) THEN NoLine
        ELSE SomeLine(Unescape(inner[first].a))

\* one pass of the loop over line_matches
DecodeDiv(d, st) ==
    LET has_removal == \E j \in 1..Len(d.a) : d.a[j].k = "removed"
        has_addition == \E j \in 1..Len(d.a) : d.a[j].k = "added"
        removed_match == SpanMatch(d.a, "removed")
        added_match == SpanMatch(d.a, "added")
        plain_line == SomeLine(Unescape(StripTags(d.a)))
    IN  IF has_removal \/ has_addition
        THEN [current |-> IF has_removal /\ removed_match.some
                          THEN [st.current EXCEPT ![d.i] = removed_match]
                          ELSE st.current,
              suggested |-> IF has_addition /\ added_match.some
                            THEN [st.suggested EXCEPT ![d.i] = added_match]
                            ELSE st.suggested]
        ELSE [current |-> [st.current EXCEPT ![d.i] = plain_line],
              suggested |-> [st.suggested EXCEPT ![d.i] = plain_line]]

RECURSIVE DecodeDivs(_, _)
DecodeDivs(ds, st) ==
    IF ds = <<>> THEN st
    ELSE DecodeDivs(Tail(ds), DecodeDiv(Head(ds), st))

RECURSIVE MaxIndex(_)
\* max([int(idx) for idx, _ in line_matches]) if line_matches else 0
MaxIndex(ds) ==
    IF ds = <<>> THEN 0 ELSE Max(Head(ds).i, MaxIndex(Tail(ds)))

\* [line if line is not None else "" for line in lines], joined
JoinDecoded(f, max_line_index) ==
    Join([j \in 1..(max_line_index + 1) |-> f[j - 1].line])

\* the decoding of the line containers: the pair of texts they give
DecodeContent(editor_content) ==
    Let(SortDivs(SelectSeq(editor_content, LAMBDA t : t.k = "div")),
        LAMBDA line_matches :
    Let(MaxIndex(line_matches), LAMBDA max_line_index :
    Let(DecodeDivs(line_matches,
                   [current |-> [j \in 0..max_line_index |-> NoLine],
                    suggested |-> [j \in 0..max_line_index |-> NoLine]]),
        LAMBDA st :
        <<JoinDecoded(st.current, max_line_index),
          JoinDecoded(st.suggested, max_line_index)>>)))

\* every content is decoded as line containers
parse_diff_content_NoPlainCase(editor_content) == DecodeContent(editor_content)

\* the pair (current_template_text, suggested_template_text)
parse_diff_content(editor_content) ==
    IF ~HasMarkup(editor_content)
    THEN <<editor_content, editor_content>>
    ELSE DecodeContent(editor_content)

(***************************************************************************)
(* View objects.  A view holds its templates' texts and refers to its      *)
(* ExecutionResult objects by identity.                                    *)
(***************************************************************************)
NoView == [kind |-> "none", oid |-> 0]

SimpleView(oid, template, execution_result) ==
    [kind |-> "simple", oid |-> oid, template |-> template,
     execution_result |-> execution_result]

DiffView(oid, current_template, current_result, suggested_template, suggested_result, display_mode) ==
    [kind |-> "diff", oid |-> oid,
     current_template |-> current_template, current_result |-> current_result,
     suggested_template |-> suggested_template, suggested_result |-> suggested_result,
     display_mode |-> display_mode,
     line_diffs |-> compute_line_diffs(current_template, suggested_template)]

NoOld == [result |-> 0, side |-> ""]

\* the ExecutionResult objects a view refers to
Refs(vw) ==
    IF vw.kind = "simple" THEN {vw.execution_result}
    ELSE IF vw.kind = "diff" THEN {vw.current_result, vw.suggested_result}
    ELSE {}

OldRefs(o) == {o.result} \ {0}

\* a new object's identity: one that no reference still live after the
\* operation holds (the identity of an object that is dropped may be reused)
Alloc(used) == CHOOSE i \in ErIds : i \notin used /\ \A j \in ErIds : j < i => j \in used

\* the view object itself, turned into the other kind
NewOid_InPlace(vw) == vw.oid

\* a new view object's identity
NewOid(vw) == IF vw.oid = 1 THEN 2 ELSE 1

\* objects no reference reaches are gone
Collect(h, vw, o) ==
    [i \in ErIds |-> IF i \in Refs(vw) \cup OldRefs(o) THEN h[i] ELSE NoEr]

\* no copy: the source object itself
CopyResult_Shared(h, source, used) == [id |-> source, heap |-> h]

\* ExecutionResult(variables=source.variables.copy()): a new object with its
\* own mapping
CopyResult(h, source, used) ==
    LET id == Alloc(used)
    IN  [id |-> id, heap |-> [h EXCEPT ![id] = ExecutionResult(h[source].variables)]]

\* template.execute(client, result, mode) on the object `id`
execute(h, id, text, mode, oracle) ==
    Let(Execute(text, h[id].variables, mode, oracle), LAMBDA ex :
        [heap |-> [h EXCEPT ![id] = Executed(ex, mode)], calls |-> ex.calls])

(***************************************************************************)
(* SimpleView                                                              *)
(***************************************************************************)
\* the template is executed against a new, empty ExecutionResult
simple_update_from_editor_NewResult(vw, h, text, oracle) ==
    Let(Alloc(Refs(vw)), LAMBDA id :
    Let(execute([h EXCEPT ![id] = ExecutionResult(EmptyVars)], id, text, "output_only", oracle),
        LAMBDA r :
        [view |-> [vw EXCEPT !.template = text, !.execution_result = id],
         heap |-> r.heap, calls |-> r.calls]))

\* SimpleView.update_from_editor: the template is replaced and executed
\* against the result object the view holds
simple_update_from_editor(vw, h, text, oracle) ==
    Let(execute(h, vw.execution_result, text, "output_only", oracle), LAMBDA r :
        [view |-> [vw EXCEPT !.template = text], heap |-> r.heap, calls |-> r.calls])

\* ExecutionResult.set_variable
set_variable(h, id, name, value, prompt) ==
    [h EXCEPT ![id].variables[name] =
        IF prompt.some THEN Entry(value, prompt.line) ELSE LitEntry(value)]

(***************************************************************************)
(* ChatManager._generate_template_suggestion: the DiffView of a suggestion *)
(***************************************************************************)
make_diff_view(vw, h, used, suggested_text, oracle) ==
    Let(CopyResult(h, vw.execution_result, used), LAMBDA temp :
    Let(execute(temp.heap, temp.id, suggested_text, "output_only", oracle), LAMBDA r :
        [view |-> DiffView(NewOid(vw), vw.template, vw.execution_result,
                           suggested_text, temp.id, "output_only"),
         heap |-> r.heap, calls |-> r.calls]))

(***************************************************************************)
(* DiffView                                                                *)
(***************************************************************************)
\* line diffs left as they were
Relined_Stale(vw) == vw

\* self.line_diffs = self._compute_line_diffs()
Relined(vw) ==
    [vw EXCEPT !.line_diffs =
        compute_line_diffs(vw.current_template, vw.suggested_template)]

\* lines[line_index] = line_content; "\n".join(lines)
Splice(text, line_index, line_content) ==
    Join([Split(text) EXCEPT ![line_index + 1] = line_content])

\* 0 <= line_index <= len(lines)
InRange_Inclusive(text, line_index) == 0 <= line_index /\ line_index <= Len(Split(text))

InRange(text, line_index) == 0 <= line_index /\ line_index < Len(Split(text))

\* the text a line patch executes; none when the patch addresses no line
PatchedText(vw, change_type, line_index, line_content) ==
    IF change_type = "current" /\ InRange(vw.current_template, line_index)
    THEN Splice(vw.current_template, line_index, line_content)
    ELSE IF change_type = "suggested" /\ InRange(vw.suggested_template, line_index)
    THEN Splice(vw.suggested_template, line_index, line_content)
    ELSE <<>>

\* a patch seeded from the patched side's own result
PatchSeed_OwnSide(vw, change_type) ==
    IF change_type = "suggested" THEN vw.suggested_result ELSE vw.current_result

\* the result whose mapping seeds the re-execution of a patched side
PatchSeed(vw, change_type) == vw.current_result

\* update_from_editor with change_type, line_index and line_content
diff_patch(vw, h, used, change_type, line_index, line_content, oracle) ==
    IF change_type = "current" /\ InRange(vw.current_template, line_index)
    THEN Let(Splice(vw.current_template, line_index, line_content), LAMBDA text :
         Let(CopyResult(h, PatchSeed(vw, change_type), used \cup {vw.suggested_result}),
             LAMBDA seed :
         Let(execute(seed.heap, seed.id, text, vw.display_mode, oracle), LAMBDA r :
             [view |-> Relined([vw EXCEPT !.current_template = text,
                                          !.current_result = seed.id]),
              heap |-> r.heap, calls |-> r.calls])))
    ELSE IF change_type = "suggested" /\ InRange(vw.suggested_template, line_index)
    THEN Let(Splice(vw.suggested_template, line_index, line_content), LAMBDA text :
         Let(CopyResult(h, PatchSeed(vw, change_type), used \cup {vw.current_result}),
             LAMBDA seed :
         Let(execute(seed.heap, seed.id, text, vw.display_mode, oracle), LAMBDA r :
             [view |-> Relined([vw EXCEPT !.suggested_template = text,
                                          !.suggested_result = seed.id]),
              heap |-> r.heap, calls |-> r.calls])))
    ELSE [view |-> Relined(vw), heap |-> h, calls |-> <<>>]

\* update_from_editor with the editor content alone: both sides are rebuilt;
\* oracle1 serves the current side's execute, oracle2 the suggested side's
diff_replace(vw, h, used, editor_content, oracle1, oracle2) ==
    Let(parse_diff_content(editor_content), LAMBDA parsed :
    Let(CopyResult(h, vw.current_result, used \cup {vw.suggested_result}), LAMBDA seed1 :
    Let(execute(seed1.heap, seed1.id, parsed[1], vw.display_mode, oracle1), LAMBDA r1 :
    Let(CopyResult(r1.heap, seed1.id, used \cup {seed1.id}), LAMBDA seed2 :
    Let(execute(seed2.heap, seed2.id, parsed[2], vw.display_mode, oracle2), LAMBDA r2 :
        [view |-> Relined([vw EXCEPT !.current_template = parsed[1],
                                     !.current_result = seed1.id,
                                     !.suggested_template = parsed[2],
                                     !.suggested_result = seed2.id]),
         heap |-> r2.heap, calls |-> r1.calls \o r2.calls])))))

\* DiffView.handle_template_change
diff_handle_template_change(vw, h, used, text, oracle) ==
    Let(CopyResult(h, vw.current_result, used \cup {vw.current_result}), LAMBDA seed :
    Let(execute(seed.heap, seed.id, text, vw.display_mode, oracle), LAMBDA r :
        [view |-> Relined([vw EXCEPT !.suggested_template = text,
                                     !.suggested_result = seed.id]),
         heap |-> r.heap, calls |-> r.calls]))

\* an accept seeded from the current side's mapping
AcceptSide_OtherSeed(vw) ==
    [template |-> vw.suggested_template, result |-> vw.current_result]

\* the side whose template and mapping accept_suggestion takes
AcceptSide(vw) ==
    [template |-> vw.suggested_template, result |-> vw.suggested_result]

\* the side whose template and mapping reject_suggestion takes
RejectSide(vw) ==
    [template |-> vw.current_template, result |-> vw.current_result]

\* a new SimpleView that executes on the side's own result object
leave_diff_NoCopy(vw, h, used, side, oracle) ==
    Let(execute(h, side.result, side.template, vw.display_mode, oracle), LAMBDA r :
        [view |-> SimpleView(NewOid(vw), side.template, side.result),
         heap |-> r.heap, calls |-> r.calls])

\* accept_suggestion / reject_suggestion: a new SimpleView of one side
leave_diff(vw, h, used, side, oracle) ==
    Let(CopyResult(h, side.result, used \cup Refs(vw)), LAMBDA seed :
    Let(execute(seed.heap, seed.id, side.template, vw.display_mode, oracle), LAMBDA r :
        [view |-> SimpleView(NewOid(vw), side.template, seed.id),
         heap |-> r.heap, calls |-> r.calls]))

accept_suggestion(vw, h, used, oracle) == leave_diff(vw, h, used, AcceptSide(vw), oracle)

reject_suggestion(vw, h, used, oracle) == leave_diff(vw, h, used, RejectSide(vw), oracle)

(***************************************************************************)
(* The view machine: a SimpleView is edited, a suggestion turns it into a  *)
(* DiffView, the DiffView is edited and then left by accept or reject.     *)
(***************************************************************************)
ChangeTypes == {"current", "suggested", "other"}

\* what the collaborator does in the view machine
ViewOutcomes == {"r1", "raise"}

\* what it does while a DiffView is made, rebuilt or left
DiffOutcomes == {"r1"}

LineIndexes == (0 - 1)..MaxLines

\* the lines the editor of the view machine types
ViewLines ==
    { <<RefDollar("v")>>,
      <<Asg("v", LLM("p"))>> }

ViewTexts == {Join(ls) : ls \in UNION {[1..n -> ViewLines] : n \in 1..MaxLines}}

\* editor contents with diff markup: a removed line; an added line at
\* index 1 with index 0 not addressed; a shared line and a changed line
MarkupContents ==
    { <<Div(0, <<Removed(<<RefDollar("v")>>)>>)>>,
      <<Div(1, <<Added(<<Asg("v", LLM("p"))>>)>>)>>,
      <<Div(0, <<RefDollar("v")>>),
        Div(1, <<Removed(<<Asg("v", LLM("p"))>>), Added(<<RefDollar("v")>>)>>)>> }

EditorContents == ViewTexts \cup MarkupContents

NoPrompt == NoLine

\* the record of an operation: its name, the side, line index and line
\* content of a line patch that addressed a line (index -1 otherwise), and
\* the completion calls it made
PatchOp(change_type, line_index, line_content, calls) ==
    [op |-> "patch", change_type |-> change_type, line_index |-> line_index,
     line_content |-> line_content, calls |-> calls, given_index |-> line_index]

\* the record of a line patch that addressed no line: the side and the line
\* index it was given
MissedPatchOp(change_type, given_index) ==
    [op |-> "patch", change_type |-> change_type, line_index |-> 0 - 1,
     line_content |-> <<>>, calls |-> <<>>, given_index |-> given_index]

Op(op, calls) ==
    [op |-> op, change_type |-> "", line_index |-> 0 - 1, line_content |-> <<>>,
     calls |-> calls]

\* the record of a full-content update_from_editor of a DiffView: the editor
\* content stands where a patch has its line content
ReplaceOp(editor_content, calls) ==
    [op |-> "replace", change_type |-> "", line_index |-> 0 - 1,
     line_content |-> editor_content, calls |-> calls]

\* the result the caller of the DiffView last left still holds
Used == OldRefs(old)

\* the state after the operation op that returned r = [view, heap, calls]
Becomes(r, o, op) ==
    /\ view' = r.view
    /\ old' = o
    /\ heap' = Collect(r.heap, r.view, o)
    /\ last' = [op EXCEPT !.calls = r.calls]

Init ==
    /\ \E t \in ViewTexts : view = SimpleView(1, t, 1)
    /\ heap = [i \in ErIds |-> IF i = 1 THEN ExecutionResult(EmptyVars) ELSE NoEr]
    /\ old = NoOld
    /\ last = Op("init", <<>>)

SimpleUpdate(texts, outcomes) ==
    /\ view.kind = "simple"
    /\ \E text \in texts : \E oracle \in Oracles(text, outcomes) :
         LET r == simple_update_from_editor(view, heap, text, oracle)
         IN  Becomes(r, old, Op("update", <<>>))

SetVariable(names, values, prompts) ==
    /\ view.kind = "simple"
    /\ \E name \in names, value \in values, prompt \in prompts :
         Becomes([view |-> view,
                  heap |-> set_variable(heap, view.execution_result, name, value, prompt),
                  calls |-> <<>>],
                 old, Op("set_variable", <<>>))

Suggest ==
    /\ view.kind = "simple"
    /\ \E text \in ViewTexts : \E oracle \in Oracles(text, DiffOutcomes) :
         LET r == make_diff_view(view, heap, Refs(view), text, oracle)
         IN  Becomes(r, NoOld, Op("suggest", <<>>))

Patch ==
    /\ view.kind = "diff"
    /\ \E change_type \in ChangeTypes, line_index \in LineIndexes, line_content \in ViewLines :
         \E oracle \in Oracles(PatchedText(view, change_type, line_index, line_content), ViewOutcomes) :
           LET r == diff_patch(view, heap, Used, change_type, line_index,
                               line_content, oracle)
           IN  Becomes(r, old,
                       IF PatchedText(view, change_type, line_index, line_content) = <<>>
                       THEN MissedPatchOp(change_type, line_index)
                       ELSE PatchOp(change_type, line_index, line_content, <<>>))

Replace ==
    /\ view.kind = "diff"
    /\ \E editor_content \in EditorContents :
         \E oracle1 \in Oracles(parse_diff_content(editor_content)[1], DiffOutcomes) :
           \E oracle2 \in Oracles(parse_diff_content(editor_content)[2], DiffOutcomes) :
             LET r == diff_replace(view, heap, Used, editor_content, oracle1, oracle2)
             IN  Becomes(r, old, ReplaceOp(editor_content, <<>>))

HandleTemplateChange ==
    /\ view.kind = "diff"
    /\ \E text \in ViewTexts : \E oracle \in Oracles(text, DiffOutcomes) :
         LET r == diff_handle_template_change(view, heap, Used, text, oracle)
         IN  Becomes(r, old, Op("handle_template_change", <<>>))

Accept ==
    /\ view.kind = "diff"
    /\ \E oracle \in Oracles(view.suggested_template, DiffOutcomes) :
         LET r == accept_suggestion(view, heap, Used, oracle)
         IN  Becomes(r, [result |-> view.suggested_result, side |-> "suggested"],
                     Op("accept", <<>>))

Reject ==
    /\ view.kind = "diff"
    /\ \E oracle \in Oracles(view.current_template, DiffOutcomes) :
         LET r == reject_suggestion(view, heap, Used, oracle)
         IN  Becomes(r, [result |-> view.current_result, side |-> "current"],
                     Op("reject", <<>>))

Next ==
    \/ SimpleUpdate(ViewTexts, ViewOutcomes)
    \/ SetVariable({"v"}, {ResponseValue("r1")}, {SomeLine(<<Txt("p")>> \o Suffix)})
    \/ Suggest
    \/ Patch
    \/ Replace
    \/ HandleTemplateChange
    \/ Accept
    \/ Reject

Spec == Init /\ [][Next]_vars

(***************************************************************************)
(* Properties of the view machine.                                         *)
(***************************************************************************)
\* the names for which an operation made a completion call
Called(calls) == {calls[j].n : j \in 1..Len(calls)}

\* every variable the execute made no completion call for holds what the
\* seed mapping held (the templates of the view machine assign by LLM only)
SeededFrom(variables, seed, calls) ==
    \A n \in Vars \ Called(calls) : variables[n] = seed[n]

\* the side an accept or a reject step takes, read from the DiffView it leaves
TakenSide(vw, op) ==
    IF op = "accept"
    THEN [template |-> vw.suggested_template, result |-> vw.suggested_result]
    ELSE [template |-> vw.current_template, result |-> vw.current_result]

\* C2: accept_suggestion returns a new SimpleView whose template is the
\* suggested text and reject_suggestion one whose template is the current
\* text; the new view's result is a new object whose mapping is seeded from
\* the mapping of that same side, never from the other side's.
C2_AcceptRejectTakeOwnSide ==
    [][(last'.op \in {"accept", "reject"} /\ view.kind = "diff") =>
         LET side == TakenSide(view, last'.op)
         IN  /\ view'.kind = "simple"
             /\ view'.oid # view.oid
             /\ view'.template = side.template
             /\ view'.execution_result \notin Refs(view)
             /\ SeededFrom(heap'[view'.execution_result].variables,
                           heap[side.result].variables, last'.calls)]_vars

\* an accept that made no completion call and yet holds v: v came from the
\* suggested side's mapping
C2_Witness ==
    /\ last.op = "accept"
    /\ view.kind = "simple"
    /\ last.calls = <<>>
    /\ Has(heap[view.execution_result].variables, "v")
    /\ heap[view.execution_result].variables = heap[old.result].variables

\* C3: in every state of a DiffView its line_diffs are the positional line
\* diff of its current and suggested template texts.
C3_LineDiffsCurrent ==
    view.kind = "diff" =>
        view.line_diffs = compute_line_diffs(view.current_template, view.suggested_template)

\* a line patch changed the line diffs of the DiffView
C3_Witness ==
    /\ view.kind = "diff"
    /\ last.op = "patch"
    /\ last.line_index >= 0
    /\ view.line_diffs # <<>>

\* the sides whose template an operation on a DiffView evaluates
EvaluatedSides(op) ==
    IF op.op = "patch" THEN {op.change_type} \cap (IF op.line_index >= 0
                                                   THEN {"current", "suggested"} ELSE {})
    ELSE IF op.op = "handle_template_change" THEN {"suggested"}
    ELSE {"current", "suggested"}

\* C4: the two sides of a DiffView always hold distinct result objects, hence
\* distinct variable mappings, and an operation that evaluates the template
\* of one side alone leaves the other side's result object and its variables
\* as they were.
C4_SidesDistinct ==
    [][view'.kind = "diff" =>
         /\ view'.current_result # view'.suggested_result
         /\ (view.kind = "diff" /\ "current" \notin EvaluatedSides(last')) =>
                /\ view'.current_result = view.current_result
                /\ heap'[view'.current_result] = heap[view.current_result]
         /\ (view.kind = "diff" /\ "suggested" \notin EvaluatedSides(last')) =>
                /\ view'.suggested_result = view.suggested_result
                /\ heap'[view'.suggested_result] = heap[view.suggested_result]]_vars

\* the suggested side was re-executed with a completion call and its mapping
\* now differs from the current side's
C4_Witness ==
    /\ view.kind = "diff"
    /\ last.op = "patch"
    /\ last.change_type = "suggested"
    /\ last.calls # <<>>
    /\ heap[view.current_result].variables # heap[view.suggested_result].variables

\* C5: after accept_suggestion the suggested result of the DiffView is a
\* different object from the returned SimpleView's result, and no
\* set_variable or update_from_editor on the SimpleView changes its variables.
C5_AcceptedResultUntouched ==
    [][old'.side = "suggested" =>
         /\ view'.kind = "simple" => view'.execution_result # old'.result
         /\ heap'[old'.result].variables =
                IF last'.op = "accept" THEN heap[view.suggested_result].variables
                ELSE heap[old.result].variables]_vars

\* the SimpleView returned by accept was edited and its mapping then changed
C5_Witness ==
    /\ old.side = "suggested"
    /\ view.kind = "simple"
    /\ last.op \in {"update", "set_variable"}
    /\ heap[view.execution_result].variables # heap[old.result].variables

\* the text of a side with line i (from 0) replaced
WithLine(text, i, line) == Join([Split(text) EXCEPT ![i + 1] = line])

\* C7: a line patch that addresses a line of one side replaces that line of
\* that side's text alone, leaves the other side's text and result as they
\* were, re-executes the patched side seeded from the current side's mapping
\* (for the suggested side too) and recomputes line_diffs.
C7_LinePatch ==
    [][(last'.op = "patch" /\ last'.line_index >= 0 /\ view.kind = "diff") =>
         /\ view'.kind = "diff"
         /\ view'.line_diffs =
                compute_line_diffs(view'.current_template, view'.suggested_template)
         /\ last'.change_type = "current" =>
              /\ view'.current_template =
                     WithLine(view.current_template, last'.line_index, last'.line_content)
              /\ view'.suggested_template = view.suggested_template
              /\ view'.suggested_result = view.suggested_result
              /\ heap'[view'.suggested_result] = heap[view.suggested_result]
              /\ SeededFrom(heap'[view'.current_result].variables,
                            heap[view.current_result].variables, last'.calls)
         /\ last'.change_type = "suggested" =>
              /\ view'.suggested_template =
                     WithLine(view.suggested_template, last'.line_index, last'.line_content)
              /\ view'.current_template = view.current_template
              /\ view'.current_result = view.current_result
              /\ heap'[view'.current_result] = heap[view.current_result]
              /\ SeededFrom(heap'[view'.suggested_result].variables,
                            heap[view.current_result].variables, last'.calls)]_vars

\* a patch of the suggested side that made no completion call left it with
\* the current side's v
C7_Witness ==
    /\ view.kind = "diff"
    /\ last.op = "patch"
    /\ last.change_type = "suggested"
    /\ last.line_index >= 0
    /\ last.calls = <<>>
    /\ Has(heap[view.suggested_result].variables, "v")
    /\ view.line_diffs # <<>>

(***************************************************************************)
(* A SimpleView session: one ExecutionResult threaded through successive   *)
(* update_from_editor and set_variable calls.                              *)
(***************************************************************************)
SessionUpdate == SimpleUpdate(Texts, Outcomes)

SessionSetVariable ==
    SetVariable({"v"}, {ResponseValue("r1")}, {NoPrompt, SomeLine(<<Txt("p")>>)})

NextSession ==
    \/ SessionUpdate
    \/ SessionSetVariable

SpecSession == Init /\ [][NextSession]_vars

\* the directives of a text that assign name
DirectivesOf(text, name) == SelectSeq(text, LAMBDA t : t.k = "asg" /\ t.n = name)

\* text has exactly one directive for name, it is an LLM directive and its
\* prompt holds no reference: the evaluated prompt is the prompt as written
SoleLLM(text, name) ==
    /\ Len(DirectivesOf(text, name)) = 1
    /\ llm_match(DirectivesOf(text, name)[1].a)
    /\ \A j \in 1..Len(DirectivesOf(text, name)[1].a) :
           DirectivesOf(text, name)[1].a[j].k = "txt"

\* the evaluated prompt of that directive
SolePrompt(text, name) == PromptOf(DirectivesOf(text, name)[1].a)

\* no completion call of the operation raised
Answered(calls) == \A j \in 1..Len(calls) : calls[j].o # "raise"

\* C1: in a SimpleView session, once {{v:=LLM(p)}} has been evaluated, a later
\* update whose text still holds that directive with the same evaluated
\* prompt makes no completion call for v, and v keeps its value.
C1_CachedPromptNotRecalled ==
    [][(/\ view.kind = "simple"
        /\ last.op = "update" /\ Answered(last.calls)
        /\ SoleLLM(view.template, "v")
        /\ Has(heap[view.execution_result].variables, "v")
        /\ last'.op = "update"
        /\ SoleLLM(view'.template, "v")
        /\ SolePrompt(view'.template, "v") = SolePrompt(view.template, "v"))
       => /\ "v" \notin Called(last'.calls)
          /\ heap'[view'.execution_result].variables["v"] =
                 heap[view.execution_result].variables["v"]]_vars

\* C10: when the prompt of {{v:=LLM(p')}} differs from the prompt stored for
\* v, the completion collaborator is called for v and afterwards the prompt
\* stored for v is p', the prompt a following execute of the same template
\* compares with.
C10_StoredPromptIsNewPrompt ==
    [][(/\ view.kind = "simple"
        /\ last'.op = "update" /\ Answered(last'.calls)
        /\ SoleLLM(view'.template, "v")
        /\ Has(heap[view.execution_result].variables, "v")
        /\ ~SamePrompt(heap[view.execution_result].variables, "v",
                       SolePrompt(view'.template, "v")))
       => /\ "v" \in Called(last'.calls)
          /\ SamePrompt(heap'[view'.execution_result].variables, "v",
                        SolePrompt(view'.template, "v"))]_vars

(***************************************************************************)
(* The line diff alone: two texts are drawn and _compute_line_diffs is     *)
(* applied to them.                                                        *)
(***************************************************************************)
DiffLines == {<<>>, <<Txt("a")>>, <<Txt("b")>>, <<Txt("x")>>}

DiffTexts ==
    {Join(ls) : ls \in UNION {[1..n -> DiffLines] : n \in 1..MaxDiffLines}}

InitDiff ==
    /\ \E c \in DiffTexts, g \in DiffTexts :
         view = [kind |-> "texts", current_template |-> c,
                 suggested_template |-> g, line_diffs |-> <<>>]
    /\ heap = [i \in ErIds |-> NoEr]
    /\ old = NoOld
    /\ last = Op("init", <<>>)

ComputeLineDiffs ==
    /\ view.kind = "texts"
    /\ view' = [view EXCEPT !.kind = "diffed",
                            !.line_diffs = compute_line_diffs(view.current_template,
                                                              view.suggested_template)]
    /\ last' = Op("compute_line_diffs", <<>>)
    /\ UNCHANGED <<heap, old>>

NextDiff == ComputeLineDiffs

SpecDiff == InitDiff /\ [][NextDiff]_vars

\* lines padded with empty lines to length n
Padded(lines, n) == [i \in 1..n |-> IF i <= Len(lines) THEN lines[i] ELSE <<>>]

\* the tag of a record whose two lines differ
TagOf(current_line, suggested_line) ==
    IF current_line = <<>> THEN "added"
    ELSE IF suggested_line = <<>> THEN "removed"
    ELSE "modified"

\* C8: the line diff is positional: both texts are split on newline, the
\* shorter list is padded with empty lines, a record with lineIndex i exists
\* iff the lines at i differ, it is tagged modified when both lines are
\* non-empty, added when the current line is empty, removed when the
\* suggested line is empty, and records are in increasing index order.
C8_PositionalLineDiff ==
    view.kind = "diffed" =>
        LET n == Max(Len(Split(view.current_template)), Len(Split(view.suggested_template)))
            c == Padded(Split(view.current_template), n)
            g == Padded(Split(view.suggested_template), n)
            d == view.line_diffs
        IN  /\ \A j \in 1..Len(d) :
                 /\ d[j].lineIndex \in 0..(n - 1)
                 /\ c[d[j].lineIndex + 1] # g[d[j].lineIndex + 1]
                 /\ d[j].originalLine = c[d[j].lineIndex + 1]
                 /\ d[j].suggestedLine = g[d[j].lineIndex + 1]
                 /\ d[j].changeType = TagOf(c[d[j].lineIndex + 1], g[d[j].lineIndex + 1])
            /\ \A i \in 1..n : c[i] # g[i] => \E j \in 1..Len(d) : d[j].lineIndex = i - 1
            /\ \A j \in 1..(Len(d) - 1) : d[j].lineIndex < d[j + 1].lineIndex

\* a diff of texts of different lengths with a record of each tag
C8_Witness ==
    /\ view.kind = "diffed"
    /\ Len(Split(view.current_template)) # Len(Split(view.suggested_template))
    /\ \A tag \in {"modified", "added", "removed"} :
         \E j \in 1..Len(view.line_diffs) : view.line_diffs[j].changeType = tag

\* the texts of the example: current a, b and suggested a, x, b
C9_Case ==
    /\ view.kind = "diffed"
    /\ view.current_template = Join(<<<<Txt("a")>>, <<Txt("b")>>>>)
    /\ view.suggested_template = Join(<<<<Txt("a")>>, <<Txt("x")>>, <<Txt("b")>>>>)

\* C9: for current lines a, b and suggested lines a, x, b the diffs are
\* exactly index 1 modified (b against x) and index 2 added (the empty line
\* against b): two records, not one added record.
C9_InsertedLineCascades ==
    C9_Case =>
        view.line_diffs =
            << [lineIndex |-> 1, originalLine |-> <<Txt("b")>>,
                suggestedLine |-> <<Txt("x")>>, changeType |-> "modified"],
               [lineIndex |-> 2, originalLine |-> <<>>,
                suggestedLine |-> <<Txt("b")>>, changeType |-> "added"] >>

\* the example's diff has been computed
C9_Witness == C9_Case /\ Len(view.line_diffs) = 2

\* C9 as the specification words it: index 1 modified (b against x) and
\* index 2 tagged removed.
C9_AsWorded ==
    C9_Case =>
        /\ Len(view.line_diffs) = 2
        /\ view.line_diffs[1] =
               [lineIndex |-> 1, originalLine |-> <<Txt("b")>>,
                suggestedLine |-> <<Txt("x")>>, changeType |-> "modified"]
        /\ view.line_diffs[2].lineIndex = 2
        /\ view.line_diffs[2].changeType = "removed"

(***************************************************************************)
(* ChatManager: the view registry of one session, absent until the first   *)
(* request, under update_template, handle_chat_message and                 *)
(* _process_view_action.                                                   *)
(***************************************************************************)
\* self.view_registry[session_id] = SimpleView(template, ExecutionResult(), client)
registered(text) ==
    [view |-> SimpleView(1, text, 1),
     heap |-> [i \in ErIds |-> IF i = 1 THEN ExecutionResult(EmptyVars) ELSE NoEr]]

\* ChatManager.update_template
update_template(vw, h, editor_content, change_type, line_index, line_content, oracle1, oracle2) ==
    Let(IF vw.kind = "none" THEN registered(editor_content)
        ELSE [view |-> vw, heap |-> h], LAMBDA first :
        IF first.view.kind = "diff" /\ change_type # "none"
        THEN diff_patch(first.view, first.heap, {}, change_type, line_index,
                        line_content, oracle1)
        ELSE IF first.view.kind = "diff"
        THEN diff_replace(first.view, first.heap, {}, editor_content, oracle1, oracle2)
        ELSE simple_update_from_editor(first.view, first.heap, editor_content, oracle1))

\* ChatManager._process_view_action on a DiffView: the SimpleView is put in
\* the registry and its template is executed once more
process_view_action(vw, h, view_action, oracle1, oracle2) ==
    Let(IF view_action = "accept" THEN accept_suggestion(vw, h, {}, oracle1)
        ELSE reject_suggestion(vw, h, {}, oracle1), LAMBDA r :
    Let(execute(r.heap, r.view.execution_result, r.view.template,
                "output_only", oracle2), LAMBDA e :
        [view |-> r.view, heap |-> e.heap, calls |-> r.calls \o e.calls]))

\* ChatManager.handle_chat_message; answer is what the chat completion gave:
\* it raised, it held no template text, or it held the text answer.text
handle_chat_message(vw, h, current_template_text, view_action, answer, oracle1, oracle2) ==
    Let(IF vw.kind = "none" THEN registered(current_template_text)
        ELSE [view |-> vw, heap |-> h], LAMBDA first :
    Let(IF first.view.kind = "diff"
        THEN reject_suggestion(first.view, first.heap, {}, oracle1)
        ELSE [view |-> first.view, heap |-> first.heap, calls |-> <<>>], LAMBDA simple :
        IF view_action \in {"accept", "reject"} \/ answer.kind # "text"
        THEN simple
        ELSE Let(make_diff_view(simple.view, simple.heap, Refs(simple.view),
                                answer.text, oracle2), LAMBDA d :
                 [view |-> d.view, heap |-> d.heap, calls |-> simple.calls \o d.calls])))

ViewActions == {"none", "accept", "reject"}

\* no chat completion is asked for
NoAnswer == [kind |-> "none", text |-> <<>>]

Answers ==
    {[kind |-> "raise", text |-> <<>>], [kind |-> "empty", text |-> <<>>]}
        \cup {[kind |-> "text", text |-> t] : t \in ViewTexts}

\* the text the first execute of an operation runs on
FirstText(vw, editor_content, change_type, line_index, line_content) ==
    IF vw.kind = "diff" /\ change_type # "none"
    THEN PatchedText(vw, change_type, line_index, line_content)
    ELSE IF vw.kind = "diff" THEN parse_diff_content(editor_content)[1]
    ELSE editor_content

\* the record of a handle_chat_message call: the view action it was given
ChatOp(view_action, calls) ==
    [op |-> "chat", change_type |-> "", line_index |-> 0 - 1, line_content |-> <<>>,
     calls |-> calls, view_action |-> view_action]

InitMgr ==
    /\ view = NoView
    /\ heap = [i \in ErIds |-> NoEr]
    /\ old = NoOld
    /\ last = Op("init", <<>>)

UpdateTemplate ==
    \E change_type \in IF view.kind = "diff" THEN ChangeTypes \cup {"none"} ELSE {"none"} :
      \E editor_content \in IF change_type # "none" THEN {<<>>}
                            ELSE IF view.kind = "diff" THEN EditorContents ELSE ViewTexts :
        \E line_index \in IF change_type = "none" THEN {0} ELSE LineIndexes :
          \E line_content \in IF change_type = "none" THEN {<<>>} ELSE ViewLines :
            \E oracle1 \in Oracles(FirstText(view, editor_content, change_type,
                                             line_index, line_content),
                                   IF change_type = "none" THEN DiffOutcomes ELSE ViewOutcomes) :
              \E oracle2 \in Oracles(IF view.kind = "diff" /\ change_type = "none"
                                     THEN parse_diff_content(editor_content)[2] ELSE <<>>,
                                     DiffOutcomes) :
                LET r == update_template(view, heap, editor_content, change_type,
                                         line_index, line_content, oracle1, oracle2)
                IN  Becomes(r, NoOld, Op("update_template", <<>>))

HandleChatMessage ==
    \E current_template_text \in IF view.kind = "none" THEN ViewTexts \cup {<<>>} ELSE {<<>>} :
      \E view_action \in ViewActions :
        \E answer \in IF view_action = "none" THEN Answers ELSE {NoAnswer} :
        \E oracle1 \in Oracles(IF view.kind = "diff" THEN view.current_template ELSE <<>>,
                               DiffOutcomes) :
          \E oracle2 \in Oracles(answer.text, DiffOutcomes) :
            LET r == handle_chat_message(view, heap, current_template_text,
                                         view_action, answer, oracle1, oracle2)
            IN  Becomes(r, NoOld, ChatOp(view_action, <<>>))

ProcessViewAction ==
    /\ view.kind = "diff"
    /\ \E view_action \in {"accept", "reject"} :
         LET text == IF view_action = "accept" THEN view.suggested_template
                     ELSE view.current_template
         IN  \E oracle1 \in Oracles(text, DiffOutcomes), oracle2 \in Oracles(text, DiffOutcomes) :
               LET r == process_view_action(view, heap, view_action, oracle1, oracle2)
               IN  Becomes(r, NoOld, Op(view_action, <<>>))

NextMgr ==
    \/ UpdateTemplate
    \/ HandleChatMessage
    \/ ProcessViewAction

SpecMgr == InitMgr /\ [][NextMgr]_vars

\* C6: once a session is in the registry it always holds exactly one view, a
\* SimpleView or a DiffView; update_template never changes the kind of the
\* view nor replaces the view object; and whenever a DiffView gives way to a
\* SimpleView, the SimpleView is a new object with a result object of its own.
C6_OneViewPerSession ==
    [][/\ view.kind # "none" => view'.kind \in {"simple", "diff"}
       /\ view'.kind = "simple" =>
              heap'[view'.execution_result].live
       /\ view'.kind = "diff" =>
              heap'[view'.current_result].live /\ heap'[view'.suggested_result].live
       /\ (last'.op = "update_template" /\ view.kind # "none") =>
              view'.kind = view.kind /\ view'.oid = view.oid
       /\ (view.kind = "diff" /\ view'.kind = "simple") =>
              /\ view'.oid # view.oid
              /\ view'.execution_result \notin Refs(view)]_vars

\* a chat request or a view action has replaced a DiffView by a SimpleView
C6_Witness ==
    /\ view.kind = "simple"
    /\ last.op \in {"chat", "accept", "reject"}
    /\ last.calls # <<>>

(***************************************************************************)
(* Template.execute alone: a new ExecutionResult is made by the first      *)
(* execute and is handed back to the next one as existing_result.          *)
(***************************************************************************)
MaxExecutes == 2       \* executes on one ExecutionResult

Modes == {"output_only", "output_and_variables"}

ExecOutcomes == {"r1", "raise"}

LLMOf(prompt) == <<Txt("LLM(")>> \o prompt \o <<Txt(")")>>

SUM(list) == <<Txt("SUM(")>> \o list \o <<Txt(")")>>

AVG(list) == <<Txt("AVG(")>> \o list \o <<Txt(")")>>

\* 1,2  and  1,2,3  and  $v,$w
OneTwo == <<Num(1), Comma, Num(2)>>

OneTwoThree == <<Num(1), Comma, Num(2), Comma, Num(3)>>

RefList == <<RefDollar("v"), Comma, RefDollar("w")>>

\* the texts of the first execute
SeedTexts ==
    { <<>>,
      <<Asg("t", AVG(OneTwo))>>,                           \* {{t:=AVG(1,2)}}
      <<Asg("t", <<Txt("a")>>)>>,                          \* {{t:=a}}
      <<Asg("v", LLM("p"))>>,                              \* {{v:=LLM(p)}}
      <<Asg("v", <<Txt("a")>>)>>,                          \* {{v:=a}}
      <<Asg("v", <<Num(1)>>), Asg("w", <<Num(2)>>)>> }     \* {{v:=1}}{{w:=2}}

\* the directives of a text of a later execute, in source order
DirectiveLists ==
    { <<>>,
      <<Asg("v", <<Num(1)>>)>>,                            \* {{v:=1}}
      <<Asg("v", <<Txt("a")>>)>>,                          \* {{v:=a}}
      <<Asg("v", LLM("p"))>>,                              \* {{v:=LLM(p)}}
      <<Asg("t", SUM(OneTwo))>>,                           \* {{t:=SUM(1,2)}}
      <<Asg("t", AVG(OneTwo))>>,                           \* {{t:=AVG(1,2)}}
      <<Asg("t", SUM(OneTwoThree))>>,                      \* {{t:=SUM(1,2,3)}}
      <<Asg("t", SUM(RefList))>>,                          \* {{t:=SUM($v,$w)}}
      <<Asg("t", AVG(RefList))>>,                          \* {{t:=AVG($v,$w)}}
      <<Asg("v", <<Num(1)>>), Asg("w", <<Num(2)>>), Asg("t", SUM(RefList))>>,
      <<Asg("v", <<Num(1)>>), Asg("w", <<Num(2)>>), Asg("t", AVG(RefList))>>,
      <<Asg("v", LLM("p")), Asg("w", LLMOf(<<RefDollar("v")>>))>>,
      <<Asg("v", LLM("p")), Asg("w", LLM("q"))>>,
      <<Asg("v", LLM("p")), Asg("w", <<Txt("a")>>)>>,
      <<Asg("v", <<Num(1)>>), Asg("w", <<RefDollar("v")>>)>>,
      <<Asg("w", <<RefDollar("v")>>)>>,                    \* {{w:=$v}}
      <<Asg("w", <<RefDollar("v")>>), Asg("v", <<Num(1)>>)>> }

\* the text before the first directive
Before == { <<>>, <<RefDollar("v")>> }

\* the text after the first directive
Between == { <<>>, <<Txt("a")>> }

\* the text after the last directive
After ==
    { <<>>, <<Txt("b")>>, <<RefDollar("v")>>, <<RefCurlyDollar("v")>>,
      <<RefCurly("v")>>, <<RefDollar("w")>>, <<RefDollar("t")>>,
      <<RefDollar("u")>>, <<RefDollar("d")>> }

Framed(pre, directives, mid, post) ==
    IF directives = <<>> THEN pre \o mid \o post
    ELSE pre \o <<Head(directives)>> \o mid \o Tail(directives) \o post

ExecTexts ==
    { Framed(pre, directives, mid, post) :
          pre \in Before, directives \in DirectiveLists, mid \in Between, post \in After }

\* the state after an execute: the text and mode it was given, the mapping
\* of existing_result before it, the mapping and output of the result, and
\* whether the execute returned
Run(text, mode, existing, ex, n) ==
    [kind |-> "run", template_text |-> text, mode |-> mode, existing |-> existing,
     variables |-> ex.variables, rendered_output |-> ex.rendered_output,
     returned |-> ~ex.raised, executes |-> n]

Ran(text, mode, ex) ==
    /\ view' = Run(text, mode, view.variables, ex, view.executes + 1)
    /\ last' = [Op("execute", <<>>) EXCEPT !.calls = ex.calls]
    /\ UNCHANGED <<heap, old>>

InitExec ==
    /\ view = Run(<<>>, "output_only", EmptyVars,
                  [variables |-> EmptyVars, rendered_output |-> <<>>, raised |-> FALSE], 0)
    /\ heap = [i \in ErIds |-> NoEr]
    /\ old = NoOld
    /\ last = Op("init", <<>>)

\* template.execute(client): result = ExecutionResult()
ExecuteNew ==
    /\ view.executes = 0
    /\ \E text \in SeedTexts, mode \in Modes :
         \E oracle \in Oracles(text, ExecOutcomes) :
           Ran(text, mode, Execute(text, EmptyVars, mode, oracle))

\* template.execute(client, existing_result): result = existing_result
ExecuteExisting ==
    /\ view.executes >= 1
    /\ view.executes < MaxExecutes
    /\ \E text \in ExecTexts, mode \in Modes :
         \E oracle \in Oracles(text, ExecOutcomes) :
           Ran(text, mode, Execute(text, view.variables, mode, oracle))

NextExec ==
    \/ ExecuteNew
    \/ ExecuteExisting

SpecExec == InitExec /\ [][NextExec]_vars

\* the outcomes of the completion calls an execute made, in order
OracleOf(calls) == [j \in 1..Len(calls) |-> calls[j].o]

\* position k of the executed text holds an assignment directive
DirectiveAt(k) == view.template_text[k].k = "asg"

\* no later directive of the executed text assigns the name assigned at k
LastFor(k) ==
    \A j \in (k + 1)..Len(view.template_text) :
        ~(DirectiveAt(j) /\ view.template_text[j].n = view.template_text[k].n)

\* the mapping, the instance counters and the calls made when the execute
\* reaches position k of its text
Reached(k) ==
    ProcessDirectives(SubSeq(view.template_text, 1, k - 1),
                      Start(view.existing),
                      view.mode, OracleOf(last.calls))

\* the expression of the directive at k after its references are substituted
Evaluated(k) ==
    substitute_all_variables(view.template_text[k].a, Reached(k).vars,
                             Reached(k).inst, view.mode).out

\* C11: a SUM or AVG directive whose evaluated argument string equals the
\* prompt stored for its variable leaves the stored entry as it is; with any
\* other stored prompt, a null prompt or no entry, the result is computed
\* and stored with the argument string as the prompt.
C11_AggregateCachedByArgument ==
    view.executes >= 1 =>
        \A k \in 1..Len(view.template_text) :
            (/\ DirectiveAt(k)
             /\ LastFor(k)
             /\ sum_match(Evaluated(k)) \/ avg_match(Evaluated(k))) =>
                LET name == view.template_text[k].n
                    argument == PromptOf(Evaluated(k))
                    stored == Reached(k).vars
                IN  IF stored[name].set /\ stored[name].hasPrompt
                       /\ stored[name].prompt = argument
                    THEN view.variables[name] = stored[name]
                    ELSE view.variables[name] =
                             Entry(IF sum_match(Evaluated(k))
                                   THEN process_sum(argument, stored)
                                   ELSE process_avg(argument, stored),
                                   argument)

\* {{t:=SUM(1,2)}} is executed on a mapping in which t holds the average
\* 1.5 with the prompt 1,2: t keeps 1.5
C11_Witness ==
    /\ view.executes = 2
    /\ view.existing["t"] = Entry(<<Float(3, 2)>>, OneTwo)
    /\ \E k \in 1..Len(view.template_text) :
           view.template_text[k] = Asg("t", SUM(OneTwo))
    /\ view.variables["t"] = Entry(<<Float(3, 2)>>, OneTwo)

\* the expression holds no reference
Verbatim(expr) == \A j \in 1..Len(expr) : expr[j].k \notin {"$", "{{$}}", "{{}}"}

\* C12: a directive whose expression is not of the form LLM(...), SUM(...) or
\* AVG(...) stores the expression text, with its references substituted, and
\* a null prompt, whatever entry the variable had; an expression without
\* references is stored as written.
C12_LiteralOverwrites ==
    view.executes >= 1 =>
        \A k \in 1..Len(view.template_text) :
            (/\ DirectiveAt(k)
             /\ LastFor(k)
             /\ ~llm_match(view.template_text[k].a)
             /\ ~sum_match(view.template_text[k].a)
             /\ ~avg_match(view.template_text[k].a)) =>
                LET name == view.template_text[k].n
                    expr == view.template_text[k].a
                IN  /\ view.variables[name] =
                           [set |-> TRUE, value |-> Evaluated(k),
                            hasPrompt |-> FALSE, prompt |-> <<>>]
                    /\ Verbatim(expr) => view.variables[name].value = expr

\* {{v:=a}} is executed on a mapping in which v holds a completion and its
\* prompt: v becomes the text a with a null prompt
C12_Witness ==
    /\ view.executes = 2
    /\ view.existing["v"].set
    /\ view.existing["v"].hasPrompt
    /\ view.existing["v"].value # <<Txt("a")>>
    /\ \E k \in 1..Len(view.template_text) :
           view.template_text[k] = Asg("v", <<Txt("a")>>)
    /\ view.variables["v"].value = <<Txt("a")>>
    /\ ~view.variables["v"].hasPrompt

\* C13: when the completion call of the only directive of a variable raises,
\* the variable is in the mapping after the execute and its value is the
\* error string, in both rendering modes.
C13_RaiseStoresError ==
    view.executes >= 1 =>
        \A j \in 1..Len(last.calls) :
            (/\ last.calls[j].o = "raise"
             /\ Len(DirectivesOf(view.template_text, last.calls[j].n)) = 1) =>
                /\ view.variables[last.calls[j].n].set
                /\ view.variables[last.calls[j].n].value = ErrorMsg

\* a completion call made before position k of the executed text raised
AfterFailure(k) ==
    \E j \in 1..Len(Reached(k).calls) : Reached(k).calls[j].o = "raise"

\* the token is a reference to a variable of the mapping
OpenReference(t, variables) ==
    t.k \in {"$", "{{$}}", "{{}}"} /\ Has(variables, t.n)

RECURSIVE IsSubseq(_, _)
\* s is t with some elements left out
IsSubseq(s, t) ==
    IF s = <<>> THEN TRUE
    ELSE IF t = <<>> THEN FALSE
    ELSE IF Head(s) = Head(t) THEN IsSubseq(Tail(s), Tail(t))
    ELSE IsSubseq(s, Tail(t))

\* the names of the completion calls of the last execute, in call order
CallNames == [j \in 1..Len(last.calls) |-> last.calls[j].n]

\* the names of the LLM directives of the executed text, in source order
LLMNames ==
    LET ds == SelectSeq(view.template_text,
                        LAMBDA t : t.k = "asg" /\ t.a # <<>> /\ t.a[1] = Txt("LLM("))
    IN  [j \in 1..Len(ds) |-> ds[j].n]

\* the position of the last directive before k that assigns name, 0 if none
Preceding(k, name) ==
    LET S == {j \in 1..(k - 1) : DirectiveAt(j) /\ view.template_text[j].n = name}
    IN  IF S = {} THEN 0 ELSE CHOOSE j \in S : \A i \in S : i <= j

\* the directive at k is {{name:=$n}}
CopyOf(k) ==
    /\ DirectiveAt(k)
    /\ Len(view.template_text[k].a) = 1
    /\ view.template_text[k].a[1].k = "$"

\* the directive at k is a literal written without references
PlainLiteral(k) ==
    /\ DirectiveAt(k)
    /\ Verbatim(view.template_text[k].a)
    /\ ~llm_match(view.template_text[k].a)
    /\ ~sum_match(view.template_text[k].a)
    /\ ~avg_match(view.template_text[k].a)

\* value is the reference to name substituted by content
Wraps(value, name, content) ==
    /\ Len(value) = 1
    /\ value[1].k \in {"span", "marker"}
    /\ value[1].n = name
    /\ value[1].a = content

\* C15: the completion calls of an execute are made in the source order of
\* the LLM directives, and the expression of a directive is evaluated with
\* the values assigned by the directives before it and by none after it:
\* {{w:=$v}} stores the value the preceding directive of v assigned, the
\* value v had before the execute if no directive of v precedes; the prompt
\* of {{w:=LLM($v)}} holds the completion just stored for v.
C15_SourceOrder ==
    view.executes >= 1 =>
        /\ IsSubseq(CallNames, LLMNames)
        /\ \A k \in 1..Len(view.template_text) :
               (CopyOf(k) /\ LastFor(k)) =>
                   LET name == view.template_text[k].n
                       n == view.template_text[k].a[1].n
                       j == Preceding(k, n)
                   IN  /\ (j # 0 /\ PlainLiteral(j)) =>
                              Wraps(view.variables[name].value, n, view.template_text[j].a)
                       /\ (j = 0 /\ view.existing[n].set) =>
                              Wraps(view.variables[name].value, n, view.existing[n].value)
                       /\ (j = 0 /\ ~view.existing[n].set) =>
                              view.variables[name].value = <<RefDollar(n)>>
        /\ \A c \in 2..Len(last.calls) :
               (/\ last.calls[c].p # <<>>
                /\ last.calls[c].p[1].k \in {"span", "marker"}
                /\ last.calls[c].p[1].n = last.calls[c - 1].n
                /\ last.calls[c - 1].o # "raise"
                /\ Len(DirectivesOf(view.template_text, last.calls[c - 1].n)) = 1) =>
                   last.calls[c].p[1].a = ResponseValue(last.calls[c - 1].o)

\* {{v:=LLM(p)}}{{w:=LLM($v)}}: v is requested first, and the prompt sent
\* for w holds the completion stored for v
C15_Witness ==
    /\ view.executes >= 1
    /\ CallNames = <<"v", "w">>
    /\ last.calls[1].o = "r1"
    /\ last.calls[2].p[1].k \in {"span", "marker"}
    /\ last.calls[2].p[1].a = ResponseValue("r1")
    /\ view.variables["w"].set

\* t is what a reference to name has become: the substituted value or the
\* rendered data source
Substituted(t, name) ==
    \/ t.k \in {"span", "marker"} /\ t.n = name
    \/ t = DataSource(name)

RECURSIVE Renders(_, _)
\* out is text without its directives: the text tokens as they are and in
\* their order, each reference as it is or substituted
Renders(out, text) ==
    IF text = <<>> THEN out = <<>>
    ELSE LET t == Head(text)
         IN  IF t.k = "asg" THEN Renders(out, Tail(text))
             ELSE IF out = <<>> THEN FALSE
             ELSE IF t.k \in {"$", "{{}}"}
             THEN /\ Head(out) = t \/ Substituted(Head(out), t.n)
                  /\ Renders(Tail(out), Tail(text))
             ELSE IF t.k = "{{$}}" /\ Head(out) # t
             THEN /\ Len(out) >= 3
                  /\ out[1] = Txt("{{")
                  /\ Substituted(out[2], t.n)
                  /\ out[3] = Txt("}}")
                  /\ Renders(SubSeq(out, 4, Len(out)), Tail(text))
             ELSE /\ Head(out) = t
                  /\ Renders(Tail(out), Tail(text))

\* C16: the rendered output is the executed text with every directive span
\* deleted: what is outside the spans is kept in its order, and only the
\* references are substituted.
C16_DirectiveSpansElided ==
    view.executes >= 1 => Renders(view.rendered_output, view.template_text)

\* $v{{v:=...}}a...b: a directive between a reference and two texts leaves
\* the substituted reference followed by a and b
C16_Witness ==
    /\ view.executes >= 1
    /\ Len(view.template_text) = 4
    /\ view.template_text[1] = RefDollar("v")
    /\ DirectiveAt(2)
    /\ view.template_text[3] = Txt("a")
    /\ view.template_text[4] = Txt("b")
    /\ Len(view.rendered_output) = 3
    /\ view.rendered_output[1].k \in {"span", "marker"}
    /\ view.rendered_output[2] = Txt("a")
    /\ view.rendered_output[3] = Txt("b")

\* C17: a reference $name, {{$name}} or {{name}} to a variable of the mapping
\* is replaced as a whole by the variable's value (in its span or marker):
\* where the executed text ends with such a reference, the output ends with
\* the wrapped value and nothing of the reference syntax.
C17_ReferenceFormsReplacedWhole ==
    (/\ view.executes >= 1
     /\ view.template_text # <<>>
     /\ view.template_text[Len(view.template_text)].k \in {"$", "{{$}}", "{{}}"}
     /\ Has(view.variables, view.template_text[Len(view.template_text)].n)) =>
        /\ view.rendered_output # <<>>
        /\ Wraps(<<view.rendered_output[Len(view.rendered_output)]>>,
                 view.template_text[Len(view.template_text)].n,
                 view.variables[view.template_text[Len(view.template_text)].n].value)

\* C18: with {{v:=1}} and {{w:=2}} earlier in the text, {{t:=SUM($v,$w)}}
\* stores the sum 3.0 of the two values and {{t:=AVG($v,$w)}} their average
\* 1.5, in both rendering modes.
C18_AggregateOverReferences ==
    view.executes >= 1 =>
        \A k \in 1..Len(view.template_text) :
            (/\ DirectiveAt(k)
             /\ LastFor(k)
             /\ view.template_text[k].a \in {SUM(RefList), AVG(RefList)}
             /\ Preceding(k, "v") # 0
             /\ Preceding(k, "w") # 0
             /\ view.template_text[Preceding(k, "v")].a = <<Num(1)>>
             /\ view.template_text[Preceding(k, "w")].a = <<Num(2)>>) =>
                view.variables[view.template_text[k].n].value =
                    IF view.template_text[k].a = SUM(RefList)
                    THEN <<Float(3, 1)>>
                    ELSE <<Float(3, 2)>>

(***************************************************************************)
(* Template._process_sum and Template._process_avg alone, on a list        *)
(* written without references.                                             *)
(***************************************************************************)
MaxNumbers == 3        \* items of a list

\* the items of a list: whole numbers and words
ListItems == {Num(1), Num(2), Num(3), Txt("a"), Txt("b"), Txt("c")}

ListSeparators == {Comma, Semicolon, Blank}

RECURSIVE Joined(_, _)
\* the items with a separator after each but the last
Joined(items, seps) ==
    IF items = <<>> THEN <<>>
    ELSE IF Len(items) = 1 THEN items
    ELSE <<Head(items), Head(seps)>> \o Joined(Tail(items), Tail(seps))

NumberLists ==
    UNION { { Joined(items, seps) : items \in [1..n -> ListItems],
                                    seps \in [1..n -> ListSeparators] } :
            n \in 0..MaxNumbers }

InitNumbers ==
    /\ \E content \in NumberLists :
         view = [kind |-> "list", content |-> content, result |-> <<>>]
    /\ heap = [i \in ErIds |-> NoEr]
    /\ old = NoOld
    /\ last = Op("init", <<>>)

ProcessSum ==
    /\ view.kind = "list"
    /\ view' = [view EXCEPT !.kind = "sum",
                            !.result = process_sum(view.content, EmptyVars)]
    /\ last' = Op("process_sum", <<>>)
    /\ UNCHANGED <<heap, old>>

ProcessAvg ==
    /\ view.kind = "list"
    /\ view' = [view EXCEPT !.kind = "avg",
                            !.result = process_avg(view.content, EmptyVars)]
    /\ last' = Op("process_avg", <<>>)
    /\ UNCHANGED <<heap, old>>

NextNumbers ==
    \/ ProcessSum
    \/ ProcessAvg

SpecNumbers == InitNumbers /\ [][NextNumbers]_vars

\* the whole numbers among the items of the list, in order
WholeNumbers(content) == SelectSeq(content, LAMBDA t : t.k = "num")

RECURSIVE Total(_)
Total(items) == IF items = <<>> THEN 0 ELSE Head(items).i + Total(Tail(items))

\* result is str() of the float total/count, written in lowest terms
IsQuotient(result, total, count) ==
    /\ Len(result) = 1
    /\ result[1].k = "float"
    /\ result[1].i * count = total * result[1].a[1].i
    /\ \A g \in 2..result[1].a[1].i :
           ~(result[1].i % g = 0 /\ result[1].a[1].i % g = 0)

\* C19: on a list of items separated by commas, semicolons and blanks, SUM
\* yields str() of the sum of the numeric items and AVG str() of that sum
\* divided by their number; the other items are left out, and the result is
\* 0 when no numeric item remains: SUM(1,2,3) is 6.0, AVG(1,2,3) is 2.0 and
\* SUM(a,b,c) is 0.
C19_SumAndAvg ==
    /\ view.kind = "sum" =>
           IF WholeNumbers(view.content) = <<>>
           THEN view.result = <<Num(0)>>
           ELSE IsQuotient(view.result, Total(WholeNumbers(view.content)), 1)
    /\ view.kind = "avg" =>
           IF WholeNumbers(view.content) = <<>>
           THEN view.result = <<Num(0)>>
           ELSE IsQuotient(view.result, Total(WholeNumbers(view.content)),
                           Len(WholeNumbers(view.content)))
    /\ (view.kind = "sum" /\ view.content = OneTwoThree) => view.result = <<Float(6, 1)>>
    /\ (view.kind = "avg" /\ view.content = OneTwoThree) => view.result = <<Float(2, 1)>>
    /\ (view.kind = "sum" /\ view.content = <<Txt("a"), Comma, Txt("b"), Comma, Txt("c")>>) =>
           view.result = <<Num(0)>>

\* AVG(1;a 2): the word is left out and the average of 1 and 2 is 1.5
C19_Witness ==
    /\ view.kind = "avg"
    /\ view.content = <<Num(1), Semicolon, Txt("a"), Blank, Num(2)>>
    /\ view.result = <<Float(3, 2)>>

\* the number of tokens of s that are the token t
Count(s, t) == Len(SelectSeq(s, LAMBDA x : x = t))

\* the references $name of the executed text outside its directives whose
\* name is neither a variable of the mapping nor a data source
UnknownReferences ==
    { view.template_text[k] : k \in { i \in 1..Len(view.template_text) :
          /\ view.template_text[i].k = "$"
          /\ ~Has(view.variables, view.template_text[i].n)
          /\ view.template_text[i].n \notin data_sources_items } }

\* C20: a reference $name outside the directives whose name is neither in
\* the mapping nor a data source is in the output as the text $name, as
\* often as it is in the text, at the end of the output if it ends the
\* text, in both rendering modes, and the execute returns.
C20_UnknownReferenceKept ==
    view.executes >= 1 =>
        \A t \in UnknownReferences :
            /\ view.returned
            /\ Count(view.rendered_output, t) = Count(view.template_text, t)
            /\ view.template_text[Len(view.template_text)] = t =>
                   /\ view.rendered_output # <<>>
                   /\ view.rendered_output[Len(view.rendered_output)] = t

\* a text that ends with $u is executed on a mapping that has variables:
\* the output ends with $u
C20_Witness ==
    /\ view.executes = 2
    /\ \E n \in Vars : view.variables[n].set
    /\ view.template_text # <<>>
    /\ view.template_text[Len(view.template_text)] = RefDollar("u")
    /\ RefDollar("u") \in UnknownReferences
    /\ view.rendered_output[Len(view.rendered_output)] = RefDollar("u")

(***************************************************************************)
(* Edits of a SimpleView and the mapping they leave.                       *)
(***************************************************************************)
\* C21: SimpleView.update_from_editor executes the new text against the
\* ExecutionResult object the view held: the view refers to the same object
\* afterwards, and every variable that was in the mapping is still in it,
\* with the value and prompt it had when the new text has no directive that
\* assigns it.
C21_EditKeepsResultAndVariables ==
    [][(view.kind = "simple" /\ last'.op = "update") =>
         /\ view'.kind = "simple"
         /\ view'.execution_result = view.execution_result
         /\ \A n \in Vars :
              Has(heap[view.execution_result].variables, n) =>
                 /\ Has(heap'[view'.execution_result].variables, n)
                 /\ DirectivesOf(view'.template, n) = <<>> =>
                        heap'[view'.execution_result].variables[n] =
                            heap[view.execution_result].variables[n]]_vars

\* after an edit whose text assigns neither v nor w, the mapping still holds
\* an answer for v with its prompt and the literal w
C21_Witness ==
    /\ view.kind = "simple"
    /\ last.op = "update"
    /\ DirectivesOf(view.template, "v") = <<>>
    /\ DirectivesOf(view.template, "w") = <<>>
    /\ Has(heap[view.execution_result].variables, "v")
    /\ heap[view.execution_result].variables["v"].hasPrompt
    /\ Has(heap[view.execution_result].variables, "w")

(***************************************************************************)
(* Full-content edits of a DiffView.                                       *)
(***************************************************************************)
\* C22: for editor content without span markup parse_diff_content returns
\* the content for both sides, so a full-content update_from_editor of a
\* DiffView sets the template text of both sides to that content and leaves
\* line_diffs empty.
C22_PlainContentBothSides ==
    [][(view.kind = "diff" /\ last'.op = "replace" /\ ~HasMarkup(last'.line_content)) =>
         /\ view'.kind = "diff"
         /\ view'.current_template = last'.line_content
         /\ view'.suggested_template = last'.line_content
         /\ view'.line_diffs = <<>>]_vars

\* a full-content edit with plain content of two lines left both sides of
\* the DiffView with that content, executed on a mapping that has variables
C22_Witness ==
    /\ view.kind = "diff"
    /\ last.op = "replace"
    /\ ~HasMarkup(last.line_content)
    /\ Len(Split(last.line_content)) = 2
    /\ view.current_template = view.suggested_template
    /\ view.line_diffs = <<>>
    /\ heap[view.current_result].variables # EmptyVars

(***************************************************************************)
(* The decoder alone: an editor content is drawn and parse_diff_content is *)
(* applied to it.                                                          *)
(***************************************************************************)
MaxContainers == 2     \* line containers of an editor content

\* sys.maxsize, the longest list a build can make, here of a 32-bit build
\* (2^63 - 1 on a 64-bit build, reached by a longer digit string)
PY_SSIZE_T_MAX == 2147483647

\* the values of data-line-index: (\d+) takes any digit string
ParseIndexes == {0, 1, 2, PY_SSIZE_T_MAX}

\* what a line container holds: a removed span, an added span, both, a
\* reference span with an entity, plain text
ContainerContents ==
    { <<Removed(<<Txt("x"), Txt("&amp;")>>)>>,
      <<Added(<<Txt("y")>>)>>,
      <<Removed(<<Txt("x")>>), Added(<<Txt("&lt;"), Txt("y")>>)>>,
      <<Txt("a"), Span("v", 1, <<Txt("&lt;")>>)>>,
      <<Txt("a")>> }

\* editor contents of up to MaxContainers containers, in any order of their
\* indexes, no index twice
ParseContents ==
    { c \in UNION {[1..n -> {Div(i, inner) : i \in ParseIndexes, inner \in ContainerContents}] :
                      n \in 1..MaxContainers} :
        \A j, m \in 1..Len(c) : j # m => c[j].i # c[m].i }

\* [None] * (max_line_index + 1) raises when that length is beyond sys.maxsize
ListTooLong(max_line_index) == max_line_index >= PY_SSIZE_T_MAX

\* whether parse_diff_content leaves by an exception
Raises(editor_content) ==
    /\ HasMarkup(editor_content)
    /\ ListTooLong(MaxIndex(SelectSeq(editor_content, LAMBDA t : t.k = "div")))

Parsed(editor_content, returned, texts) ==
    [kind |-> "parsed", editor_content |-> editor_content, returned |-> returned,
     current |-> texts[1], suggested |-> texts[2]]

InitParse ==
    /\ \E c \in ParseContents : view = [kind |-> "content", editor_content |-> c]
    /\ heap = [i \in ErIds |-> NoEr]
    /\ old = NoOld
    /\ last = Op("init", <<>>)

ParseDiffContent ==
    /\ view.kind = "content"
    /\ view' = IF Raises(view.editor_content)
               THEN Parsed(view.editor_content, FALSE, <<<<>>, <<>>>>)
               ELSE Parsed(view.editor_content, TRUE, parse_diff_content(view.editor_content))
    /\ UNCHANGED <<heap, old, last>>

NextParse == ParseDiffContent

SpecParse == InitParse /\ [][NextParse]_vars

\* the containers of the content parsed
Containers == SelectSeq(view.editor_content, LAMBDA t : t.k = "div")

\* whether a container holds a span of the kind
Holds(d, kind) == \E j \in 1..Len(d.a) : d.a[j].k = kind

\* the text of the first span of the kind in a container
SpanText(d, kind) == SelectSeq(d.a, LAMBDA t : t.k = kind)[1].a

\* line i (from 0) of a decoded text
DecodedLine(text, i) == Split(text)[i + 1]

\* the four cases of a container, and the indexes no container gives a line
DecodedAsSaid ==
    /\ \A j \in 1..Len(Containers) :
         LET d == Containers[j]
         IN  /\ Holds(d, "removed") /\ ~Holds(d, "added") =>
                  /\ DecodedLine(view.current, d.i) = Unescape(SpanText(d, "removed"))
                  /\ DecodedLine(view.suggested, d.i) = <<>>
             /\ Holds(d, "added") /\ ~Holds(d, "removed") =>
                  /\ DecodedLine(view.suggested, d.i) = Unescape(SpanText(d, "added"))
                  /\ DecodedLine(view.current, d.i) = <<>>
             /\ Holds(d, "removed") /\ Holds(d, "added") =>
                  /\ DecodedLine(view.current, d.i) = Unescape(SpanText(d, "removed"))
                  /\ DecodedLine(view.suggested, d.i) = Unescape(SpanText(d, "added"))
             /\ ~Holds(d, "removed") /\ ~Holds(d, "added") =>
                  /\ DecodedLine(view.current, d.i) = Unescape(StripTags(d.a))
                  /\ DecodedLine(view.suggested, d.i) = DecodedLine(view.current, d.i)
    /\ Len(Split(view.current)) = MaxIndex(Containers) + 1
    /\ Len(Split(view.suggested)) = MaxIndex(Containers) + 1
    /\ \A i \in 0..MaxIndex(Containers) :
         (\A j \in 1..Len(Containers) : Containers[j].i # i) =>
             /\ DecodedLine(view.current, i) = <<>>
             /\ DecodedLine(view.suggested, i) = <<>>

\* C23: for editor content with diff markup parse_diff_content returns, never
\* raises, and decodes index by index: a removed span alone gives its
\* unescaped text to the current side only, an added span alone to the
\* suggested side only, both give each side its own, neither gives both
\* sides the tag-stripped unescaped text, and an index no container
\* addresses is the empty line.
C23_DecodesEveryContent ==
    (view.kind = "parsed" /\ HasMarkup(view.editor_content)) =>
        /\ view.returned
        /\ DecodedAsSaid

(***************************************************************************)
(* DiffView.render_output in the display modes.                            *)
(***************************************************************************)
RECURSIVE LStrip(_)
\* the text without its leading blanks and newlines
LStrip(s) ==
    IF s # <<>> /\ Head(s) \in {Blank, NL} THEN LStrip(Tail(s)) ELSE s

RECURSIVE RStrip(_)
RStrip(s) ==
    IF s # <<>> /\ s[Len(s)] \in {Blank, NL} THEN RStrip(SubSeq(s, 1, Len(s) - 1)) ELSE s

\* str.strip()
Strip(s) == RStrip(LStrip(s))

\* re.findall(r"{{([^:]+):=([^}]+)}}", template_text): the directives with a
\* definition of at least one character
DefinitionMatches(template_text) ==
    SelectSeq(template_text, LAMBDA t : t.k = "asg" /\ t.a # <<>>)

\* definitions.get(name, ""): f"{{{{{name}:={definition}}}}}" of the last
\* match for name, with the definition stripped
Definition(matches, name) ==
    Let(SelectSeq(matches, LAMBDA t : t.n = name), LAMBDA own :
        IF own = <<>> THEN <<>>
        ELSE <<Asg(name, Strip(own[Len(own)].a))>>)

\* DiffView._get_variable_definitions
get_variable_definitions(template_text) ==
    [name \in Vars |-> Definition(DefinitionMatches(template_text), name)]

NoInfo ==
    [some |-> FALSE, value |-> <<>>, current_definition |-> <<>>,
     suggested_definition |-> <<>>, has_diff |-> FALSE]

\* for var_name, var_value in var_dict.items(), var_dict being the variables
\* of current_result
InfoNames(vw, h) == {n \in Vars : Has(h[vw.current_result].variables, n)}

\* DiffView._create_variables_info
create_variables_info(vw, h) ==
    Let(get_variable_definitions(vw.current_template), LAMBDA current_defs :
    Let(get_variable_definitions(vw.suggested_template), LAMBDA suggested_defs :
        [n \in Vars |->
            IF n \in InfoNames(vw, h)
            THEN [some |-> TRUE,
                  value |-> h[vw.current_result].variables[n].value,
                  current_definition |-> current_defs[n],
                  suggested_definition |-> suggested_defs[n],
                  has_diff |-> current_defs[n] # suggested_defs[n]]
            ELSE NoInfo]))

\* DiffView.render_output: the fields the display modes differ in
diff_render_output(vw, h) ==
    [result |-> h[vw.suggested_result].rendered_output,
     display_mode |-> vw.display_mode,
     has_variables_info |-> vw.display_mode = "output_and_variables",
     variables_info |-> IF vw.display_mode = "output_and_variables"
                        THEN create_variables_info(vw, h)
                        ELSE [n \in Vars |-> NoInfo]]

\* DiffView.set_display_mode
set_display_mode(vw, mode) == [vw EXCEPT !.display_mode = mode]

\* the lines of the two sides of a rendered DiffView
RenderLines ==
    { <<RefDollar("v")>>,
      <<Asg("v", <<Txt("x")>>)>>,
      <<Asg("v", <<Blank, Txt("x"), Blank>>)>>,
      <<Asg("v", <<Txt("y")>>)>>,
      <<Asg("w", <<Txt("x")>>)>>,
      <<Asg("v", LLM("p"))>> }

RenderTexts == {Join(ls) : ls \in UNION {[1..n -> RenderLines] : n \in 1..MaxLines}}

RenderOp(output) ==
    [op |-> "render_output", change_type |-> "", line_index |-> 0 - 1,
     line_content |-> <<>>, calls |-> <<>>, output |-> output]

\* a DiffView as _generate_template_suggestion makes it: the session's
\* SimpleView has executed its text, the suggestion is executed on a copy
InitRender ==
    \E c \in RenderTexts, g \in RenderTexts :
      \E oracle1 \in Oracles(c, DiffOutcomes), oracle2 \in Oracles(g, DiffOutcomes) :
        LET first == simple_update_from_editor(
                         SimpleView(1, <<>>, 1),
                         [i \in ErIds |-> IF i = 1 THEN ExecutionResult(EmptyVars) ELSE NoEr],
                         c, oracle1)
            r == make_diff_view(first.view, first.heap, Refs(first.view), g, oracle2)
        IN  /\ view = r.view
            /\ heap = Collect(r.heap, r.view, NoOld)
            /\ old = NoOld
            /\ last = Op("suggest", <<>>)

SetDisplayMode ==
    /\ view.kind = "diff"
    /\ \E mode \in Modes :
         /\ view' = set_display_mode(view, mode)
         /\ last' = Op("set_display_mode", <<>>)
    /\ UNCHANGED <<heap, old>>

RenderOutput ==
    /\ view.kind = "diff"
    /\ last' = RenderOp(diff_render_output(view, heap))
    /\ UNCHANGED <<heap, view, old>>

NextRender ==
    \/ SetDisplayMode
    \/ RenderOutput

SpecRender == InitRender /\ [][NextRender]_vars

\* C24: in the output_and_variables display mode render_output has, for
\* every variable that a directive with a definition assigns on either side,
\* an entry in variables_info whose has_diff says whether the definitions of
\* the variable on the two sides differ, a side without one differing from a
\* side with one.
C24_EveryDefinedVariableReported ==
    (last.op = "render_output" /\ view.display_mode = "output_and_variables") =>
        \A n \in Vars :
            (\/ get_variable_definitions(view.current_template)[n] # <<>>
             \/ get_variable_definitions(view.suggested_template)[n] # <<>>) =>
                /\ last.output.variables_info[n].some
                /\ last.output.variables_info[n].has_diff <=>
                       (get_variable_definitions(view.current_template)[n] #
                            get_variable_definitions(view.suggested_template)[n])

(***************************************************************************)
(* View actions given to handle_chat_message.                              *)
(***************************************************************************)
\* C25: when the session's view is a DiffView, handle_chat_message with
\* view_action 'accept' leaves a SimpleView whose template text is the
\* DiffView's suggested template text, and with view_action 'reject' a
\* SimpleView whose template text is the DiffView's current template text.
C25_ChatActionTakesItsSide ==
    [][(view.kind = "diff" /\ last'.op = "chat") =>
         /\ last'.view_action = "accept" =>
              /\ view'.kind = "simple"
              /\ view'.template = view.suggested_template
         /\ last'.view_action = "reject" =>
              /\ view'.kind = "simple"
              /\ view'.template = view.current_template]_vars

(***************************************************************************)
(* The completion calls of accept_suggestion.                              *)
(***************************************************************************)
\* C26: accept_suggestion of a DiffView in output_only mode makes no
\* completion call for a variable whose LLM directive of the suggested text
\* was evaluated on the suggested side with the same prompt, and the
\* SimpleView it returns holds for it the value suggested_result held.
C26_AcceptReusesSuggestedValues ==
    [][(view.kind = "diff" /\ view.display_mode = "output_only" /\ last'.op = "accept") =>
         \A n \in Vars :
            (/\ SoleLLM(view.suggested_template, n)
             /\ Has(heap[view.suggested_result].variables, n)
             /\ heap[view.suggested_result].variables[n].hasPrompt
             /\ heap[view.suggested_result].variables[n].prompt =
                    SentPrompt(SolePrompt(view.suggested_template, n), "output_only"))
            => /\ n \notin Called(last'.calls)
               /\ view'.kind = "simple"
               /\ heap'[view'.execution_result].variables[n].value =
                      heap[view.suggested_result].variables[n].value]_vars

(***************************************************************************)
(* Aggregates across edits.                                                *)
(***************************************************************************)
\* C27: after any sequence of executes on one result, a variable whose
\* latest directive is SUM(L) holds the sum of L and one whose latest
\* directive is AVG(L) holds the average of L, also when the earlier
\* directive of the variable was the other aggregate of the same L.
C27_AggregateHoldsItsOwnResult ==
    view.executes >= 1 =>
        \A k \in 1..Len(view.template_text) :
            (DirectiveAt(k) /\ LastFor(k) /\ Verbatim(view.template_text[k].a)) =>
                LET name == view.template_text[k].n
                    content == view.template_text[k].a
                IN  /\ sum_match(content) =>
                           view.variables[name].value =
                               str(sum(parse_numbers(PromptOf(content))))
                    /\ avg_match(content) =>
                           view.variables[name].value =
                               str(avg(parse_numbers(PromptOf(content))))

(***************************************************************************)
(* What the output of an edit depends on.                                  *)
(***************************************************************************)
\* the names a text refers to outside its directives' definitions
ReferencedIn(s) ==
    {s[j].n : j \in {m \in 1..Len(s) : s[m].k \in {"$", "{{$}}", "{{}}"}}}

\* every directive of the text is a literal assignment and the text names
\* no data source
LiteralOnly(text) ==
    /\ \A k \in 1..Len(text) :
         text[k].k = "asg" =>
            /\ ~llm_match(text[k].a) /\ ~sum_match(text[k].a) /\ ~avg_match(text[k].a)
            /\ ReferencedIn(text[k].a) \cap data_sources_items = {}
    /\ ReferencedIn(text) \cap data_sources_items = {}

\* the names the directives of text before position k assign
AssignedBefore(text, k) ==
    {text[j].n : j \in {m \in 1..(k - 1) : text[m].k = "asg"}}

\* no reference of the text reads an entry that only the mapping of before
\* the edit supplies: a name referred to in the residual text is assigned by
\* a directive of the text or is not in that mapping, one referred to in a
\* directive by an earlier directive or is not in that mapping
SelfContained(text, existing) ==
    /\ \A n \in ReferencedIn(Residual(text)) :
           n \in AssignedBefore(text, Len(text) + 1) \/ ~Has(existing, n)
    /\ \A k \in 1..Len(text) :
           text[k].k = "asg" =>
               \A n \in ReferencedIn(text[k].a) :
                   n \in AssignedBefore(text, k) \/ ~Has(existing, n)

\* the output of the text executed against an empty ExecutionResult
OutputOnEmpty(text) == Execute(text, EmptyVars, "output_only", <<>>).rendered_output

\* C28, as worded: for a text of literal assignments and references the
\* output of the edit is the output of the text on an empty
\* ExecutionResult, whatever the session executed before.
C28_AsWorded ==
    (view.executes >= 1 /\ view.mode = "output_only" /\ LiteralOnly(view.template_text)) =>
        view.rendered_output = OutputOnEmpty(view.template_text)

\* C28: for a text of literal assignments and references in which no
\* reference reads an entry that only the mapping of before the edit
\* supplies, the output of the edit is the output of the text on an empty
\* ExecutionResult, whatever the session executed before.
C28_OutputOfSelfContainedText ==
    (/\ view.executes >= 1
     /\ view.mode = "output_only"
     /\ LiteralOnly(view.template_text)
     /\ SelfContained(view.template_text, view.existing)) =>
        view.rendered_output = OutputOnEmpty(view.template_text)

\* the second edit assigns v, which had another value, and refers to it
C28_Witness ==
    /\ view.executes = 2
    /\ view.mode = "output_only"
    /\ LiteralOnly(view.template_text)
    /\ SelfContained(view.template_text, view.existing)
    /\ Has(view.existing, "v")
    /\ "v" \in ReferencedIn(Residual(view.template_text))
    /\ view.variables["v"] # view.existing["v"]
    /\ view.rendered_output # view.template_text

(***************************************************************************)
(* Line patches that address no line.                                      *)
(***************************************************************************)
\* the number of lines of the side a patch names
SideLines(vw, change_type) ==
    IF change_type = "current" THEN Len(Split(vw.current_template))
    ELSE Len(Split(vw.suggested_template))

\* the patch names no side of the view or no line of the side it names
AddressesNothing(vw, op) ==
    \/ op.change_type \notin {"current", "suggested"}
    \/ op.given_index < 0
    \/ op.given_index >= SideLines(vw, op.change_type)

\* C30: a line patch of a DiffView whose line index is outside the lines of
\* the side it names, or whose side is neither 'current' nor 'suggested',
\* changes nothing: the template texts, the ExecutionResults and the
\* line_diffs are as before, and no completion call is made.
C30_MissedPatchChangesNothing ==
    [][(view.kind = "diff" /\ last'.op = "patch" /\ AddressesNothing(view, last')) =>
         /\ view' = view
         /\ heap'[view'.current_result] = heap[view.current_result]
         /\ heap'[view'.suggested_result] = heap[view.suggested_result]
         /\ last'.calls = <<>>]_vars

\* a patch was given the index just past the last line of the current side,
\* whose text has an LLM directive and differs from the suggested text
C30_Witness ==
    /\ view.kind = "diff"
    /\ last.op = "patch"
    /\ last.change_type = "current"
    /\ last.given_index = Len(Split(view.current_template))
    /\ MaxCalls(view.current_template) > 0
    /\ view.line_diffs # <<>>

(***************************************************************************)
(* Two update_from_editor calls on one SimpleView, each in its own thread. *)
(* The view has no lock.  A thread runs from the call to its first         *)
(* completion call, and from the return of a completion call to the next   *)
(* one or to the end of update_from_editor; while a thread waits in a      *)
(* completion call the other thread may run.  The template attribute and   *)
(* the ExecutionResult object with its mapping are shared.                 *)
(***************************************************************************)
Threads == {1, 2}

\* the editor contents the two calls are given
RaceTexts ==
    { <<Txt("a")>>,                                        \* a
      <<RefDollar("v")>>,                                  \* $v
      <<Asg("v", LLM("p")), Txt("a"), RefDollar("v")>>,    \* {{v:=LLM(p)}}a$v
      <<Asg("v", LLM("q")), Txt("b")>>,                    \* {{v:=LLM(q)}}b
      <<Asg("w", <<Txt("a")>>), RefDollar("w")>>,          \* {{w:=a}}$w
      <<Asg("v", LLM("p")), Asg("w", LLMOf(<<RefDollar("v")>>)), RefDollar("w")>> }
                                                           \* {{v:=LLM(p)}}{{w:=LLM($v)}}$w

RaceOutcomes == {"r1", "r2", "raise"}

\* a thread that has not called, one that waits in the completion call for
\* the directive at pos of its template, one whose call has returned
Ready == [pc |-> "ready", tpl |-> <<>>, pos |-> 0, inst |-> NoInst, name |-> "", sent |-> <<>>]

Blocked(tpl, pos, inst, name, sent) ==
    [pc |-> "blocked", tpl |-> tpl, pos |-> pos, inst |-> inst, name |-> name, sent |-> sent]

Done == [pc |-> "done", tpl |-> <<>>, pos |-> 0, inst |-> NoInst, name |-> "", sent |-> <<>>]

RECURSIVE RunToCall(_, _, _, _)
\* _process_template from position pos of the text on the shared mapping,
\* up to the next directive that calls the collaborator or to the end
RunToCall(text, pos, vs, inst) ==
    IF pos > Len(text)
    THEN [pos |-> pos, vars |-> vs, inst |-> inst, blocked |-> FALSE,
          name |-> "", sent |-> <<>>]
    ELSE IF text[pos].k # "asg" THEN RunToCall(text, pos + 1, vs, inst)
    ELSE Let(substitute_all_variables(text[pos].a, vs, inst, "output_only"), LAMBDA sub :
         IF llm_match(sub.out) /\ ~SamePrompt(vs, text[pos].n, PromptOf(sub.out))
         THEN [pos |-> pos, vars |-> vs, inst |-> sub.inst, blocked |-> TRUE,
               name |-> text[pos].n,
               sent |-> SentPrompt(PromptOf(sub.out), "output_only")]
         ELSE Let(process_prompt_template(text[pos],
                      [vars |-> vs, inst |-> inst, calls |-> <<>>, raised |-> FALSE],
                      "output_only", <<>>), LAMBDA st :
                  RunToCall(text, pos + 1, st.vars, st.inst)))

\* the shared objects after thread t ran as far as r says: it waits in a
\* completion call, or it has set result.rendered_output and returned
Proceed(vw, t, tpl, r) ==
    IF r.blocked
    THEN [vw EXCEPT !.variables = r.vars,
                    !.threads[t] = Blocked(tpl, r.pos, r.inst, r.name, r.sent)]
    ELSE [vw EXCEPT !.variables = r.vars,
                    !.rendered_output =
                        substitute_all_variables(Residual(tpl), r.vars, r.inst,
                                                 "output_only").out,
                    !.threads[t] = Done]

InitRace ==
    /\ view = [kind |-> "shared", template |-> <<>>, variables |-> EmptyVars,
               rendered_output |-> <<>>, threads |-> [t \in Threads |-> Ready]]
    /\ heap = [i \in ErIds |-> NoEr]
    /\ old = NoOld
    /\ last = Op("init", <<>>)

\* thread t calls update_from_editor(text): self.template = Template(text),
\* then execute up to its first completion call
UpdateFromEditor(t) ==
    /\ view.threads[t].pc = "ready"
    /\ \E text \in RaceTexts :
         view' = Proceed([view EXCEPT !.template = text], t, text,
                         RunToCall(text, 1, view.variables, NoInst))
    /\ UNCHANGED <<heap, old, last>>

\* the completion call thread t waits in returns or raises, and the thread
\* runs on
CompletionReturns(t) ==
    /\ view.threads[t].pc = "blocked"
    /\ \E outcome \in RaceOutcomes :
         LET th == view.threads[t]
             r == TryCall(view.variables, th.name, th.sent, "output_only", outcome)
         IN  view' = Proceed(view, t, th.tpl,
                             RunToCall(th.tpl, th.pos + 1, r.vars, th.inst))
    /\ UNCHANGED <<heap, old, last>>

NextRace ==
    \E t \in Threads :
        \/ UpdateFromEditor(t)
        \/ CompletionReturns(t)

SpecRace == InitRace /\ [][NextRace]_vars

\* C29: when two interleaved update_from_editor calls on one SimpleView
\* have both finished, the rendered output is a rendering of the template
\* text the view holds: text and output are of the same edit.
C29_OutputOfFinalTemplate ==
    (view.kind = "shared" /\ \A t \in Threads : view.threads[t].pc = "done") =>
        Renders(view.rendered_output, view.template)

====
